---- MODULE Spec2Model ----
(***************************************************************************)
(* Model of the temporal-spatial aggregation pipeline of kipp-shark:       *)
(* month_windows (plancton/SST and SWOT variants), the OBIS retrying       *)
(* client _req_get, the paginated fetch and the three drivers with their   *)
(* artifact sinks.                                                         *)
(***************************************************************************)
EXTENDS Integers, Sequences, FiniteSets, TLC

VARIABLES
    mw_start,     \* month_windows: argument start, a date <<y, m, d>>
    mw_end,       \* month_windows: argument end
    mw_impl,      \* which month_windows was called: "none", "plancton", "swot"
    mw_windows,   \* list(month_windows(start, end)): sequence of <<cur, month_end>>
    mw_desc,      \* list(month_windows_desc(start, end)) of the same variant
    mw_pc         \* "input" before the calls, "done" after month_windows, "desc" after month_windows_desc

mwVars == <<mw_start, mw_end, mw_impl, mw_windows, mw_desc, mw_pc>>

VARIABLES
    rq_attempt,   \* _req_get: the loop variable attempt (0 outside a call)
    rq_requests,  \* requests.get calls issued by the current (or last) call
    rq_failed,    \* attempts of that call that ended non-200 or in an exception
    rq_slept,     \* time.sleep durations of that call, in milliseconds
    rq_result     \* "pending", "response", "None" or "raised"

rqVars == <<rq_attempt, rq_requests, rq_failed, rq_slept, rq_result>>

VARIABLES
    sh_pc,        \* position of download_full_sharks.main
    sh_sp,        \* index in SPECIES (from 1) of the species being fetched
    sh_offset,    \* fetch_one_species_period: offset
    sh_total_est, \* fetch_one_species_period: total_est, <<>> for None, <<t>> for t
    sh_counts,    \* fetch_one_species_period: counts, a function (date_iso, h3) -> n
    sh_rows,      \* fetch_all_species_period: rows (as a set)
    sh_file,      \* the period CSV on disk: [state, rows]
    sh_report,    \* what main reported for the unit: "none", "no_occurrences", "skipped", "written"
    sh_pages,     \* history: offsets requested by the current fetch, in order
    sh_constT,    \* history: every response of the current fetch reported the total now in total_est
    sh_stop,      \* history: why the fetch loop that just returned ended
    sh_ret,       \* history: value the fetch_one_species_period that just returned gave
    sh_lastn,     \* history: number of records of the last page decoded by the current fetch
    sh_net,       \* history: an HTTP request was issued in this pass
    sh_got200,    \* history: some request of this pass was answered with status 200
    sh_existed,   \* history: the artifact was on disk when this pass started
    sh_wrote,     \* history: to_csv calls started in this pass
    sh_visited,   \* history: species whose fetch was started in this pass
    sh_cut,       \* history: rows of this pass returned by a fetch that a failed page cut short
    sh_file_cut,  \* history: sh_cut of the pass that wrote the period CSV on disk
    sh_catalog    \* what the OBIS server holds: for each species the pages of its listing

shVars == <<sh_pc, sh_sp, sh_offset, sh_total_est, sh_counts, sh_rows,
            sh_file, sh_report, sh_pages, sh_constT, sh_stop, sh_ret, sh_lastn,
            sh_net, sh_got200, sh_existed, sh_wrote, sh_visited, sh_cut, sh_file_cut,
            sh_catalog>>

VARIABLES
    sw_pc,        \* position of download_full_swot.main
    sw_catalog,   \* what search_data returns for each window (the remote data)
    sw_i,         \* index of the current window in month_windows_desc
    sw_files,     \* nc_files of the current window
    sw_groups,    \* daily_groups: (date_str, dfs) pairs in insertion order
    sw_k,         \* index in daily_groups of the day being exported
    sw_total_csv, \* main: total_csv
    sw_disk,      \* the daily CSVs on disk, by date_str: [state, granules, noise]
    sw_clean,     \* history: no call failed and nothing interrupted this pass
    sw_prev,      \* history: how the previous pass went: "none", "clean", "failed"
    sw_report     \* the total_csv printed at the end of this pass, -1 before

swVars == <<sw_pc, sw_catalog, sw_i, sw_files, sw_groups, sw_k, sw_total_csv,
            sw_disk, sw_clean, sw_prev, sw_report>>

VARIABLES
    ag_in,        \* occurrence records to aggregate, and another arrangement of them in two pages
    ag_out,       \* the counts of each arrangement; then two thresholds and the counts kept at each
    ag_pc         \* "input", "counted" after the record loops, "filtered" after the minimum filter

agVars == <<ag_in, ag_out, ag_pc>>

VARIABLES
    ex_in,        \* a NetCDF file as the exporters read it: lats, lons and the scalar field
    ex_out,       \* what the exporter produced: status, the field used, the points, the rows
    ex_pc         \* "input", "done" after an exporter ran, "regrouped" after grouping another arrangement

exVars == <<ex_in, ex_out, ex_pc>>

VARIABLES
    dr_in,        \* global attributes of a NetCDF file, its path, and the Python the script runs on
    dr_out,       \* what a date resolver gave: [by, raised, text]
    dr_pc         \* "input" before, "done" after a resolver ran

drVars == <<dr_in, dr_out, dr_pc>>

VARIABLES
    ar_src,       \* the script of the current run, "none" before the first
    ar_res,       \* the grid resolution the script's constant holds in this run
    ar_fs,        \* the CSV directories: file name -> resolution its rows were computed at
    ar_last,      \* the last thing a sink did: [op, name, had, res], <<>> at the start of a run
    ar_runs       \* runs started so far

arVars == <<ar_src, ar_res, ar_fs, ar_last, ar_runs>>

VARIABLES
    cd_script,    \* the script that is run: "plankton", "swot" or "sharks"
    cd_h3,        \* whether `import h3` succeeds in this environment
    cd_pc,        \* "import", "main", "window", "files", "done", "aborted"
    cd_results,   \* what the catalog returns for each window: the number of granules
    cd_i,         \* index of the window being worked on
    cd_calls,     \* the calls search_and_download_month made for the last window
    cd_left,      \* files of the window not processed yet
    cd_got,       \* what the window has contributed: [nc, csv]
    cd_total,     \* main's counters: [nc, csv]
    cd_warned,    \* warnings printed for a unit (a file or a month)
    cd_dir,       \* whether the download directory exists
    cd_made       \* whether the last window created the directory

cdVars == <<cd_script, cd_h3, cd_pc, cd_results, cd_i, cd_calls, cd_left, cd_got,
            cd_total, cd_warned, cd_dir, cd_made>>

VARIABLES
    ea_authenticated, \* EarthAccessManager._authenticated of the singleton
    ea_auth_failed,   \* EarthAccessManager._auth_failed of the singleton
    ea_op,            \* the method called last ("none" before the first call)
    ea_ret,           \* what that call returned: [kind, n]
    ea_log,           \* the remote calls that call made, in order: [ev, auth]
    ea_before,        \* history: the two flags when that call started
    ea_calls,         \* history: number of calls made on the singleton
    ea_since          \* history: what the last authenticate() that returned since the last
                      \* reset gave: "ok" for True, "failed" for False, "fresh" when none did

eaVars == <<ea_authenticated, ea_auth_failed, ea_op, ea_ret, ea_log, ea_before, ea_calls,
            ea_since>>

vars == <<mwVars, rqVars, shVars, swVars, agVars, exVars, drVars, arVars, cdVars, eaVars>>

\* what each part leaves alone
shOthers == <<mwVars, swVars, agVars, exVars, drVars, arVars, cdVars, eaVars>>
mwOthers == <<rqVars, shVars, swVars, agVars, exVars, drVars, arVars, cdVars, eaVars>>
swOthers == <<mwVars, rqVars, shVars, agVars, exVars, drVars, arVars, cdVars, eaVars>>
agOthers == <<mwVars, rqVars, shVars, swVars, exVars, drVars, arVars, cdVars, eaVars>>
exOthers == <<mwVars, rqVars, shVars, swVars, agVars, drVars, arVars, cdVars, eaVars>>
drOthers == <<mwVars, rqVars, shVars, swVars, agVars, exVars, arVars, cdVars, eaVars>>
arOthers == <<mwVars, rqVars, shVars, swVars, agVars, exVars, drVars, cdVars, eaVars>>
cdOthers == <<mwVars, rqVars, shVars, swVars, agVars, exVars, drVars, arVars, eaVars>>
eaOthers == <<mwVars, rqVars, shVars, swVars, agVars, exVars, drVars, arVars, cdVars>>

(***************************************************************************)
(* datetime.date arithmetic, as CPython's datetime module computes it.     *)
(***************************************************************************)
IsLeap(y) == (y % 4 = 0) /\ ((y % 100 # 0) \/ (y % 400 = 0))

DaysInMonth(y, m) ==
    IF m = 2 THEN (IF IsLeap(y) THEN 29 ELSE 28)
    ELSE IF m \in {4, 6, 9, 11} THEN 30 ELSE 31

\* days in the year y before the first day of month m
DaysBeforeMonth(y, m) ==
    LET base == <<0, 31, 59, 90, 120, 151, 181, 212, 243, 273, 304, 334>>
    IN base[m] + (IF m > 2 /\ IsLeap(y) THEN 1 ELSE 0)

\* days before January 1st of year y (proleptic Gregorian)
DaysBeforeYear(y) ==
    LET p == y - 1 IN p * 365 + (p \div 4) - (p \div 100) + (p \div 400)

\* date.toordinal()
ToOrdinal(d) == DaysBeforeYear(d[1]) + DaysBeforeMonth(d[1], d[2]) + d[3]

\* date.fromordinal(n)
FromOrdinal(n) ==
    LET n0   == n - 1
        n400 == n0 \div 146097
        r400 == n0 % 146097
        n100 == r400 \div 36524
        r100 == r400 % 36524
        n4   == r100 \div 1461
        r4   == r100 % 1461
        n1   == r4 \div 365
        r1   == r4 % 365
        year == n400 * 400 + 1 + n100 * 100 + n4 * 4 + n1
        m0   == (r1 + 50) \div 32
        pre0 == DaysBeforeMonth(year, m0)
        month == IF pre0 > r1 THEN m0 - 1 ELSE m0
        pre  == IF pre0 > r1 THEN DaysBeforeMonth(year, m0 - 1) ELSE pre0
    IN IF n1 = 4 \/ n100 = 4
       THEN <<year - 1, 12, 31>>
       ELSE <<year, month, r1 - pre + 1>>

\* date + timedelta(days = k)
AddDays(d, k) == FromOrdinal(ToOrdinal(d) + k)

\* date.replace(day = k)
ReplaceDay(d, k) == <<d[1], d[2], k>>

\* date comparison (dates order as their (year, month, day) tuples)
DateLE(a, b) ==
    \/ a[1] < b[1]
    \/ a[1] = b[1] /\ a[2] < b[2]
    \/ a[1] = b[1] /\ a[2] = b[2] /\ a[3] <= b[3]

DateLT(a, b) == DateLE(a, b) /\ a # b

\* min(a, b) on dates
DateMin(a, b) == IF DateLE(b, a) /\ a # b THEN b ELSE a

(***************************************************************************)
(* month_windows                                                           *)
(***************************************************************************)
\* nxt = (cur.replace(day=28) + timedelta(days=4)).replace(day=1)
NextMonthStart(cur) == ReplaceDay(AddDays(ReplaceDay(cur, 28), 4), 1)

\* a plausible slip: the day before nxt is not taken
MonthEnd_NoDayBack(nxt, end) == DateMin(nxt, end)

\* month_end = min(nxt - timedelta(days=1), end)
MonthEnd(nxt, end) == DateMin(AddDays(nxt, -1), end)

\* first day of the month of d: dt.date(d.year, d.month, 1)
FirstOfMonth(d) == <<d[1], d[2], 1>>

RECURSIVE MonthLoop(_, _, _)
\* the while loop of month_windows, with loop bound `limit`
MonthLoop(cur, limit, end) ==
    IF DateLE(cur, limit)
    THEN LET nxt == NextMonthStart(cur)
         IN <<<<cur, MonthEnd(nxt, end)>>>> \o MonthLoop(nxt, limit, end)
    ELSE <<>>

\* download_full_plancton.py / download_full_sst.py: while cur <= last
month_windows(start, end) ==
    MonthLoop(FirstOfMonth(start), FirstOfMonth(end), end)

\* a slip: the loop bound is strict, while cur < end
month_windows_swot_StrictBound(start, end) ==
    MonthLoop(FirstOfMonth(start), AddDays(end, -1), end)

\* download_full_swot.py: while cur <= end
month_windows_swot(start, end) ==
    MonthLoop(FirstOfMonth(start), end, end)

\* the partitioner is not in use
MwIdle ==
    /\ mw_start = <<1, 1, 1>>
    /\ mw_end = <<1, 1, 1>>
    /\ mw_impl = "none"
    /\ mw_windows = <<>>
    /\ mw_desc = <<>>
    /\ mw_pc = "idle"

(***************************************************************************)
(* download_full_sharks.py: configuration                                  *)
(***************************************************************************)
PAGE_SIZE == 1000
MAX_RETRIES == 3
RETRY_SLEEP_MS == 1000
REQUEST_SLEEP_MS == 200
H3_RESOLUTION == 5
MIN_POINTS_PER_HEX == 1
SKIP_IF_EXISTS == TRUE

SPECIES == <<"Carcharhinus", "Galeocerdo", "Sphyrna", "Prionace", "Carcharodon">>

(***************************************************************************)
(* OBIS occurrence records and the H3 cell mapping                         *)
(***************************************************************************)
\* event dates as strings of characters
EvTimestamp == <<"2","0","2","0","-","0","1","-","0","5","T","1","0",":","0","0","Z">>
EvDay == <<"2","0","2","0","-","0","1","-","0","5">>

\* a record: lat and lon are <<>> (null/absent) or <<degrees>>, ev is a string
Rec(lat, lon, ev) == [lat |-> lat, lon |-> lon, ev |-> ev]

\* a record with usable coordinates, and one whose latitude is out of range
UsableRec == Rec(<<10>>, <<20>>, EvTimestamp)
UnusableRec == Rec(<<95>>, <<20>>, EvDay)

\* the records the server serves to the driver
RecordSet == {UsableRec, UnusableRec}

\* h3 cell of a point: a deterministic function of (lat, lon, res); cells are
\* 5 degrees wide here
_latlng_to_h3(lat, lon, res) == <<res, lat \div 5, lon \div 5>>

\* the centre of a cell, as (latitude, longitude)
_h3_to_latlng(cell) == <<cell[2] * 5 + 2, cell[3] * 5 + 2>>

\* str(ev)[:10]
DateIso(ev) == SubSeq(ev, 1, IF Len(ev) < 10 THEN Len(ev) ELSE 10)

\* a slip: the range of the coordinates is not tested
CountRecord_NoRangeCheck(counts, rec) ==
    IF rec.lat = <<>> \/ rec.lon = <<>> THEN counts
    ELSE IF rec.ev = <<>> THEN counts
    ELSE LET key == <<DateIso(rec.ev), _latlng_to_h3(rec.lat[1], rec.lon[1], H3_RESOLUTION)>>
         IN IF key \in DOMAIN counts
            THEN [counts EXCEPT ![key] = @ + 1]
            ELSE counts @@ (key :> 1)

\* the body of `for rec in results` for one record
CountRecord(counts, rec) ==
    IF rec.lat = <<>> \/ rec.lon = <<>> THEN counts
    ELSE IF rec.ev = <<>> THEN counts
    ELSE LET lat == rec.lat[1]
             lon == rec.lon[1]
         IN IF ~(-90 <= lat /\ lat <= 90 /\ -180 <= lon /\ lon <= 180)
            THEN counts
            ELSE LET key == <<DateIso(rec.ev), _latlng_to_h3(lat, lon, H3_RESOLUTION)>>
                 IN IF key \in DOMAIN counts
                    THEN [counts EXCEPT ![key] = @ + 1]
                    ELSE counts @@ (key :> 1)

RECURSIVE CountRecords(_, _)
\* for rec in results: ...
CountRecords(counts, results) ==
    IF results = <<>> THEN counts
    ELSE CountRecords(CountRecord(counts, Head(results)), Tail(results))

\* the body of `for rec in results` of fetch_one_species_one_day for one record:
\* the key is the cell alone and the event date is not read
CountRecordDay(hex_counts, rec) ==
    IF rec.lat = <<>> \/ rec.lon = <<>> THEN hex_counts
    ELSE LET lat == rec.lat[1]
             lon == rec.lon[1]
         IN IF ~(-90 <= lat /\ lat <= 90 /\ -180 <= lon /\ lon <= 180)
            THEN hex_counts
            ELSE LET h == _latlng_to_h3(lat, lon, H3_RESOLUTION)
                 IN IF h \in DOMAIN hex_counts
                    THEN [hex_counts EXCEPT ![h] = @ + 1]
                    ELSE hex_counts @@ (h :> 1)

RECURSIVE CountRecordsDay(_, _)
CountRecordsDay(hex_counts, results) ==
    IF results = <<>> THEN hex_counts
    ELSE CountRecordsDay(CountRecordDay(hex_counts, Head(results)), Tail(results))

EmptyCounts == <<>>

MinFilterAt_KeepAll(counts, m) == counts

\* the minimum filter with MIN_POINTS_PER_HEX set to m:
\* if m > 1 and counts: counts = {k: n for k, n in counts.items() if n >= m}
MinFilterAt(counts, m) ==
    IF m > 1 /\ DOMAIN counts # {}
    THEN LET keep == {k \in DOMAIN counts : counts[k] >= m}
         IN [k \in keep |-> counts[k]]
    ELSE counts

\* the filter as configured
MinFilter(counts) == MinFilterAt(counts, MIN_POINTS_PER_HEX)

\* the rows fetch_all_species_period appends for one species
RowsOf(sp, counts) ==
    {[date |-> k[1], species |-> sp, h3 |-> k[2], n_obs |-> counts[k]] : k \in DOMAIN counts}

(***************************************************************************)
(* What the OBIS server may answer                                         *)
(***************************************************************************)
\* the "total" field of a response: <<"absent">>, <<"null">> or <<"int", t>>
TotalAbsent == <<"absent">>
TotalNull == <<"null">>
Total(t) == <<"int", t>>

\* one response: the "results" (a page stands for its records that differ: none
\* or one) and the "total" field
Page(results, field) == [results |-> results, field |-> field]

\* the listings the server may hold for a species, page after page: no
\* occurrence (total 0); one page that reaches the total; two and three pages
\* under a constant total; pages without a total; a total that turns null; a
\* total that shrinks to what was served
Listings ==
    [none    |-> <<Page(<<>>, Total(0))>>,
     one     |-> <<Page(<<UsableRec>>, Total(PAGE_SIZE))>>,
     two     |-> <<Page(<<UsableRec>>, Total(PAGE_SIZE + 1)),
                   Page(<<UsableRec>>, Total(PAGE_SIZE + 1))>>,
     three   |-> <<Page(<<UsableRec>>, Total(2 * PAGE_SIZE + 1)),
                   Page(<<UsableRec>>, Total(2 * PAGE_SIZE + 1)),
                   Page(<<UsableRec>>, Total(2 * PAGE_SIZE + 1))>>,
     untold  |-> <<Page(<<UsableRec>>, TotalAbsent), Page(<<UnusableRec>>, TotalAbsent)>>,
     nulled  |-> <<Page(<<UnusableRec>>, Total(2 * PAGE_SIZE + 1)),
                   Page(<<UsableRec>>, TotalNull)>>,
     shrinks |-> <<Page(<<UsableRec>>, Total(3 * PAGE_SIZE + 1)),
                   Page(<<UsableRec>>, Total(2 * PAGE_SIZE))>>]

\* what the server holds for the five species, in the order of SPECIES
Catalog(a, b, c, d, e) ==
    <<Listings[a], Listings[b], Listings[c], Listings[d], Listings[e]>>

\* what the server may hold when a pass starts
Catalogues ==
    { Catalog("none", "none", "none", "none", "none"),
      Catalog("one", "one", "one", "one", "one"),
      Catalog("three", "none", "none", "none", "none"),
      Catalog("two", "three", "none", "one", "none"),
      Catalog("none", "untold", "none", "two", "none"),
      Catalog("nulled", "none", "shrinks", "none", "one"),
      Catalog("none", "none", "none", "none", "three") }

\* the response to the request of the k-th page of a listing, the one with
\* from = (k - 1) * PAGE_SIZE: behind its last page a listing has no records,
\* and the total is reported as on the last page
Answer(listing, k) ==
    IF k <= Len(listing) THEN listing[k]
    ELSE Page(<<>>, listing[Len(listing)].field)

\* total_est = data.get("total", total_est)
GetTotal(field, total_est) ==
    IF field[1] = "absent" THEN total_est
    ELSE IF field[1] = "null" THEN <<>>
    ELSE <<field[2]>>

(***************************************************************************)
(* _req_get                                                                *)
(***************************************************************************)
RqIdle ==
    /\ rq_attempt = 0
    /\ rq_requests = 0
    /\ rq_failed = 0
    /\ rq_slept = <<>>
    /\ rq_result = "pending"

\* after time.sleep(RETRY_SLEEP * attempt): next iteration of
\* `for attempt in range(1, MAX_RETRIES + 1)`, or fall out of the loop
AfterBackoff(attempt) ==
    IF attempt < MAX_RETRIES
    THEN [again |-> TRUE, attempt |-> attempt + 1]
    ELSE [again |-> FALSE, attempt |-> attempt]

\* a slip: the transport exception is not caught
OnAttemptOutcome_NoExcept(outcome) ==
    IF outcome = "ok" THEN "return" ELSE IF outcome = "exc" THEN "raise" ELSE "sleep"

\* what one pass of the try block leads to: status 200 returns the response, any
\* other status falls through to the sleep, an exception is caught and falls
\* through to the sleep as well
OnAttemptOutcome(outcome) ==
    IF outcome = "ok" THEN "return" ELSE "sleep"

AttemptOutcomes == {"ok", "http", "exc"}

(***************************************************************************)
(* download_full_sharks.py: main, fetch_all_species_period,                *)
(* fetch_one_species_period, save_period_csv                               *)
(***************************************************************************)
AbsentFile == [state |-> "absent", rows |-> {}]

ShTerminal == {"done", "aborted", "killed"}

\* the locals of main and of the functions it calls, before they are assigned
ShNoLocals ==
    /\ sh_sp = 0
    /\ sh_offset = 0
    /\ sh_total_est = <<>>
    /\ sh_counts = EmptyCounts
    /\ sh_rows = {}
    /\ sh_pages = <<>>
    /\ sh_constT = FALSE
    /\ sh_stop = "none"
    /\ sh_ret = EmptyCounts
    /\ sh_lastn = 0

shLocals == <<sh_sp, sh_offset, sh_total_est, sh_counts, sh_rows, sh_pages,
              sh_constT, sh_stop, sh_ret, sh_lastn>>

\* the history kept about the current pass
shPass == <<sh_report, sh_net, sh_got200, sh_existed, sh_wrote, sh_visited>>

ShIdle ==
    /\ sh_pc = "idle"
    /\ ShNoLocals
    /\ sh_file = AbsentFile
    /\ sh_report = "none"
    /\ sh_net = FALSE
    /\ sh_got200 = FALSE
    /\ sh_existed = FALSE
    /\ sh_wrote = 0
    /\ sh_visited = 0
    /\ sh_cut = {}
    /\ sh_file_cut = {}
    /\ sh_catalog = <<>>

ShInit ==
    /\ sh_pc = "main"
    /\ ShNoLocals
    /\ sh_file = AbsentFile
    /\ sh_report = "none"
    /\ sh_net = FALSE
    /\ sh_got200 = FALSE
    /\ sh_existed = FALSE
    /\ sh_wrote = 0
    /\ sh_visited = 0
    /\ sh_cut = {}
    /\ sh_file_cut = {}
    /\ sh_catalog \in Catalogues

\* the process ends (return from main, uncaught exception, kill): its memory is gone
LocalsGone ==
    /\ sh_sp' = 0
    /\ sh_offset' = 0
    /\ sh_total_est' = <<>>
    /\ sh_counts' = EmptyCounts
    /\ sh_rows' = {}
    /\ sh_pages' = <<>>
    /\ sh_constT' = FALSE
    /\ sh_stop' = "none"
    /\ sh_ret' = EmptyCounts
    /\ sh_lastn' = 0

\* _req_get has returned and its result was consumed
RqClear ==
    /\ rq_attempt' = 0
    /\ rq_requests' = 0
    /\ rq_failed' = 0
    /\ rq_slept' = <<>>
    /\ rq_result' = "pending"

ProcessExit == LocalsGone /\ RqClear

\* main calls fetch_all_species_period(START_DATE, END_DATE): rows = []
ShMain ==
    /\ UNCHANGED shOthers
    /\ UNCHANGED <<sh_cut, sh_file_cut, sh_catalog>>
    /\ sh_pc = "main"
    /\ sh_sp' = 1
    /\ sh_rows' = {}
    /\ sh_pc' = "species"
    /\ UNCHANGED <<sh_offset, sh_total_est, sh_counts, sh_pages, sh_constT, sh_stop,
                   sh_ret, sh_lastn>>
    /\ UNCHANGED <<sh_file, shPass>>
    /\ UNCHANGED rqVars

\* for sp in SPECIES: counts = fetch_one_species_period(sp, ...) starts with
\* total_est = None, offset = 0, counts = {}; after the last species main goes on
ShSpecies ==
    /\ UNCHANGED shOthers
    /\ UNCHANGED <<sh_cut, sh_file_cut, sh_catalog>>
    /\ sh_pc = "species"
    /\ sh_offset' = 0
    /\ sh_total_est' = <<>>
    /\ sh_counts' = EmptyCounts
    /\ sh_pages' = <<>>
    /\ sh_constT' = FALSE
    /\ sh_stop' = "none"
    /\ sh_ret' = EmptyCounts
    /\ sh_lastn' = 0
    /\ IF sh_sp <= Len(SPECIES)
       THEN /\ sh_pc' = "page"
            /\ sh_visited' = sh_sp
       ELSE /\ sh_pc' = "save"
            /\ UNCHANGED sh_visited
    /\ RqClear
    /\ UNCHANGED <<sh_sp, sh_rows, sh_file, sh_report, sh_net, sh_got200, sh_existed, sh_wrote>>

\* resp = _req_get(OBIS_URL, params) with "from": offset; _req_get enters its loop
ShPageRequest ==
    /\ UNCHANGED shOthers
    /\ UNCHANGED <<sh_cut, sh_file_cut, sh_catalog>>
    /\ sh_pc = "page"
    /\ sh_pages' = Append(sh_pages, sh_offset)
    /\ rq_attempt' = 1
    /\ rq_requests' = 0
    /\ rq_failed' = 0
    /\ rq_slept' = <<>>
    /\ rq_result' = "pending"
    /\ sh_pc' = "req"
    /\ UNCHANGED <<sh_sp, sh_offset, sh_total_est, sh_counts, sh_rows, sh_constT, sh_stop,
                   sh_ret, sh_lastn>>
    /\ UNCHANGED <<sh_file, shPass>>

\* a slip: the counts of the earlier pages are thrown away when a page fails
EndFetch_DropOnFailure(counts, reason) ==
    /\ sh_counts' = IF reason = "failed" THEN EmptyCounts ELSE counts
    /\ sh_ret' = IF reason = "failed" THEN EmptyCounts ELSE MinFilter(counts)
    /\ sh_rows' = IF reason = "failed" THEN sh_rows
                  ELSE sh_rows \cup RowsOf(SPECIES[sh_sp], MinFilter(counts))
    /\ sh_cut' = sh_cut
    /\ sh_stop' = reason
    /\ sh_sp' = sh_sp + 1
    /\ sh_pc' = "species"

\* the fetch loop ends (break): the min-count filter, return counts, and
\* fetch_all_species_period appends the rows of the species
EndFetch(counts, reason) ==
    /\ sh_counts' = counts
    /\ sh_ret' = MinFilter(counts)
    /\ sh_rows' = sh_rows \cup RowsOf(SPECIES[sh_sp], MinFilter(counts))
    /\ sh_cut' = IF reason = "failed" /\ Len(sh_pages) >= 2
                 THEN sh_cut \cup RowsOf(SPECIES[sh_sp], MinFilter(counts))
                 ELSE sh_cut
    /\ sh_stop' = reason
    /\ sh_sp' = sh_sp + 1
    /\ sh_pc' = "species"

\* r = requests.get(...) is called: the request is on its way
ReqSend ==
    /\ UNCHANGED shOthers
    /\ UNCHANGED <<sh_cut, sh_file_cut, sh_catalog>>
    /\ sh_pc = "req"
    /\ sh_pc' = "wait"
    /\ sh_net' = TRUE
    /\ rq_requests' = rq_requests + 1
    /\ UNCHANGED <<rq_attempt, rq_failed, rq_slept, rq_result>>
    /\ UNCHANGED shLocals
    /\ UNCHANGED <<sh_file, sh_report, sh_got200, sh_existed, sh_wrote, sh_visited>>

\* requests.get returns or raises, and the rest of the try block of _req_get
ReqAttempt ==
    /\ UNCHANGED shOthers
    /\ UNCHANGED <<sh_cut, sh_file_cut, sh_catalog>>
    /\ sh_pc = "wait"
    /\ \E outcome \in AttemptOutcomes :
          LET to == OnAttemptOutcome(outcome)
          IN /\ sh_got200' = (sh_got200 \/ outcome = "ok")
             /\ IF to = "raise"
                THEN /\ sh_pc' = "aborted"
                     /\ LocalsGone
                     /\ rq_failed' = rq_failed + 1
                     /\ rq_result' = "raised"
                     /\ UNCHANGED <<rq_attempt, rq_requests, rq_slept>>
                ELSE /\ rq_failed' = IF outcome = "ok" THEN rq_failed ELSE rq_failed + 1
                     /\ rq_result' = IF to = "return" THEN "response" ELSE "pending"
                     /\ sh_pc' = IF to = "return" THEN "decode" ELSE "backoff"
                     /\ UNCHANGED <<rq_attempt, rq_requests, rq_slept>>
                     /\ UNCHANGED shLocals
    /\ UNCHANGED <<sh_file, sh_report, sh_net, sh_existed, sh_wrote, sh_visited>>

\* time.sleep(RETRY_SLEEP * attempt), then the next attempt or `return None`,
\* on which the fetch loop breaks
ReqBackoff ==
    /\ UNCHANGED shOthers
    /\ UNCHANGED <<sh_file_cut, sh_catalog>>
    /\ sh_pc = "backoff"
    /\ rq_slept' = Append(rq_slept, RETRY_SLEEP_MS * rq_attempt)
    /\ LET a == AfterBackoff(rq_attempt)
       IN IF a.again
          THEN /\ rq_attempt' = a.attempt
               /\ sh_pc' = "req"
               /\ UNCHANGED <<rq_result, sh_counts, sh_ret, sh_rows, sh_stop, sh_sp, sh_cut>>
          ELSE /\ rq_result' = "None"
               /\ UNCHANGED rq_attempt
               /\ EndFetch(sh_counts, "failed")
    /\ UNCHANGED <<rq_requests, rq_failed>>
    /\ UNCHANGED <<sh_offset, sh_total_est, sh_pages, sh_constT, sh_lastn>>
    /\ UNCHANGED <<sh_file, shPass>>

\* if total_est is not None and offset >= total_est: break
ReachedTotal(offset, total_est) == total_est # <<>> /\ offset >= total_est[1]

\* data = resp.json() raises: nothing on the way up to main catches it
ShDecodeError ==
    /\ UNCHANGED shOthers
    /\ UNCHANGED <<sh_cut, sh_file_cut, sh_catalog>>
    /\ sh_pc = "decode"
    /\ sh_pc' = "aborted"
    /\ ProcessExit
    /\ UNCHANGED <<sh_file, shPass>>

\* data = resp.json(); results, total_est; the records loop; offset += PAGE_SIZE;
\* the two break conditions
ShDecode ==
    /\ UNCHANGED shOthers
    /\ UNCHANGED <<sh_file_cut, sh_catalog>>
    /\ sh_pc = "decode"
    /\ LET page == Answer(sh_catalog[sh_sp], sh_offset \div PAGE_SIZE + 1)
           results == page.results
           total == GetTotal(page.field, sh_total_est)
           counts == CountRecords(sh_counts, results)
           offset == sh_offset + PAGE_SIZE
       IN /\ sh_total_est' = total
          /\ sh_lastn' = Len(results)
          /\ sh_constT' = (/\ page.field[1] = "int"
                           /\ (Len(sh_pages) = 1 \/ (sh_constT /\ sh_total_est = total)))
          /\ IF results = <<>>
             THEN /\ EndFetch(sh_counts, "empty")
                  /\ UNCHANGED sh_offset
             ELSE /\ sh_offset' = offset
                  /\ IF ReachedTotal(offset, total)
                     THEN EndFetch(counts, "total")
                     ELSE /\ sh_counts' = counts
                          /\ sh_pc' = "page_sleep"
                          /\ UNCHANGED <<sh_ret, sh_rows, sh_stop, sh_sp, sh_cut>>
    /\ UNCHANGED sh_pages
    /\ UNCHANGED <<sh_file, shPass>>
    /\ UNCHANGED rqVars

\* time.sleep(REQUEST_SLEEP) between two pages
ShPageSleep ==
    /\ UNCHANGED shOthers
    /\ UNCHANGED <<sh_cut, sh_file_cut, sh_catalog>>
    /\ sh_pc = "page_sleep"
    /\ sh_pc' = "page"
    /\ RqClear
    /\ UNCHANGED shLocals
    /\ UNCHANGED <<sh_file, shPass>>

\* out_path.exists()
Exists(file) == file.state # "absent"

\* main after the fetch: df_period.empty, else save_period_csv up to the point
\* where df.to_csv has opened out_path for writing
ShSave ==
    /\ UNCHANGED shOthers
    /\ UNCHANGED <<sh_cut, sh_file_cut, sh_catalog>>
    /\ sh_pc = "save"
    /\ IF sh_rows = {}
       THEN /\ sh_report' = "no_occurrences"
            /\ sh_pc' = "done"
            /\ ProcessExit
            /\ UNCHANGED <<sh_file, sh_wrote>>
       ELSE IF SKIP_IF_EXISTS /\ Exists(sh_file)
       THEN /\ sh_report' = "skipped"
            /\ sh_pc' = "done"
            /\ ProcessExit
            /\ UNCHANGED <<sh_file, sh_wrote>>
       ELSE /\ sh_file' = [state |-> "partial", rows |-> {}]
            /\ sh_wrote' = sh_wrote + 1
            /\ sh_pc' = "writing"
            /\ UNCHANGED sh_report
            /\ UNCHANGED shLocals
            /\ UNCHANGED rqVars
    /\ UNCHANGED <<sh_net, sh_got200, sh_existed, sh_visited>>

\* df.to_csv writes the rows and closes the file; main returns
ShWriteEnd ==
    /\ UNCHANGED shOthers
    /\ sh_file_cut' = sh_cut
    /\ UNCHANGED <<sh_cut, sh_catalog>>
    /\ sh_pc = "writing"
    /\ sh_file' = [state |-> "complete", rows |-> sh_rows]
    /\ sh_report' = "written"
    /\ sh_pc' = "done"
    /\ ProcessExit
    /\ UNCHANGED <<sh_net, sh_got200, sh_existed, sh_wrote, sh_visited>>

\* df.to_csv raises while writing (an OSError): main does not catch it
ShWriteError ==
    /\ UNCHANGED shOthers
    /\ UNCHANGED <<sh_cut, sh_file_cut, sh_catalog>>
    /\ sh_pc = "writing"
    /\ sh_pc' = "aborted"
    /\ ProcessExit
    /\ UNCHANGED <<sh_file, shPass>>

\* the process is interrupted (Ctrl-C, kill) wherever it is
ShInterrupt ==
    /\ UNCHANGED shOthers
    /\ UNCHANGED <<sh_cut, sh_file_cut, sh_catalog>>
    /\ sh_pc \notin ShTerminal
    /\ sh_pc' = "killed"
    /\ ProcessExit
    /\ UNCHANGED <<sh_file, shPass>>

\* the script is started again over the same period; the disk is what is kept,
\* and the server holds what it held or something else
ShStartRun ==
    /\ UNCHANGED shOthers
    /\ UNCHANGED sh_file_cut
    /\ sh_catalog' \in Catalogues
    /\ sh_pc \in ShTerminal
    /\ sh_pc' = "main"
    /\ sh_report' = "none"
    /\ sh_net' = FALSE
    /\ sh_got200' = FALSE
    /\ sh_existed' = Exists(sh_file)
    /\ sh_wrote' = 0
    /\ sh_visited' = 0
    /\ sh_cut' = {}
    /\ UNCHANGED sh_file
    /\ UNCHANGED shLocals
    /\ UNCHANGED rqVars

(***************************************************************************)
(* download_full_swot.py: main, search_and_download_month,                 *)
(* process_swot_file, export_daily_csv                                     *)
(***************************************************************************)
DOWNLOAD_DOWNSAMPLE == 15

\* START_DATE, and the value of date.today() taken for END_DATE
SW_START_DATE == <<2015, 1, 1>>
SW_END_DATE == <<2015, 2, 10>>

RECURSIVE Reverse(_)
\* reversed(list(...))
Reverse(q) == IF q = <<>> THEN <<>> ELSE Append(Reverse(Tail(q)), Head(q))

\* month_windows_desc of download_full_swot.py
month_windows_desc_swot(start, end) == Reverse(month_windows_swot(start, end))

month_windows_desc_NoReverse(start, end) == month_windows(start, end)

\* month_windows_desc of download_full_plancton.py (and download_full_sst.py)
month_windows_desc(start, end) == Reverse(month_windows(start, end))

SwWindows == month_windows_desc_swot(SW_START_DATE, SW_END_DATE)

\* a granule: its id, the day of time[0], and whether process_swot_file can
\* read it
Granule(id, day, readable) == [id |-> id, date_str |-> day, readable |-> readable]

\* the date a sensing-date string stands for
GranuleDate(date_str) ==
    IF date_str = "20150205" THEN <<2015, 2, 5>> ELSE <<2015, 1, 31>>

\* a granule sensed from its date into the next day matches temporal=(mstart, mend)
MatchesTemporal(g, w) ==
    /\ DateLE(GranuleDate(g.date_str), w[2])
    /\ DateLE(w[1], AddDays(GranuleDate(g.date_str), 1))

SwGranules ==
    { Granule("g1", "20150205", TRUE),
      Granule("g2", "20150131", TRUE),
      Granule("g3", "20150205", FALSE) }

\* what one search returns: up to two granules, in the server's order
SwResultLists ==
    {<<>>} \cup {<<g>> : g \in SwGranules}
           \cup {<<Granule("g2", "20150131", TRUE), h>> :
                    h \in SwGranules \ {Granule("g2", "20150131", TRUE)}}

\* all_results[::DOWNLOAD_DOWNSAMPLE] when DOWNLOAD_DOWNSAMPLE > 1
Downsample(results) ==
    IF DOWNLOAD_DOWNSAMPLE > 1
    THEN LET idx == {i \in 1..Len(results) : (i - 1) % DOWNLOAD_DOWNSAMPLE = 0}
             pick[n \in 0..Len(results)] ==
                 IF n = 0 THEN <<>>
                 ELSE IF n \in idx THEN Append(pick[n - 1], results[n]) ELSE pick[n - 1]
         IN pick[Len(results)]
    ELSE results

RECURSIVE AddToGroups(_, _, _)
\* daily_groups.setdefault(date_str, []).append(df), on a list of (date, dfs) pairs
\* kept in insertion order
AddToGroups(groups, day, g) ==
    IF groups = <<>> THEN <<<<day, <<g>>>>>>
    ELSE IF Head(groups)[1] = day
         THEN <<<<day, Append(Head(groups)[2], g)>>>> \o Tail(groups)
         ELSE <<Head(groups)>> \o AddToGroups(Tail(groups), day, g)

RECURSIVE DailyGroups(_, _)
\* for f in nc_files: df = process_swot_file(f); None is skipped
DailyGroups(groups, files) ==
    IF files = <<>> THEN groups
    ELSE LET f == Head(files)
         IN IF f.readable
            THEN DailyGroups(AddToGroups(groups, f.date_str, f.id), Tail(files))
            ELSE DailyGroups(groups, Tail(files))

SwDays == {g.date_str : g \in SwGranules}

\* values the columns drawn with np.random take in one call of process_swot_file
SwNoise == {0, 1}

SwAbsent == [state |-> "absent", granules |-> <<>>, noise |-> 0]

SwTerminal == {"done", "aborted", "killed"}

SwNoLocals ==
    /\ sw_i = 0
    /\ sw_files = <<>>
    /\ sw_groups = <<>>
    /\ sw_k = 0
    /\ sw_total_csv = 0

swLocals == <<sw_i, sw_files, sw_groups, sw_k, sw_total_csv>>

swPass == <<sw_clean, sw_prev, sw_report>>

SwIdle ==
    /\ sw_pc = "idle"
    /\ sw_catalog = <<>>
    /\ SwNoLocals
    /\ sw_disk = [d \in SwDays |-> SwAbsent]
    /\ sw_clean = TRUE
    /\ sw_prev = "none"
    /\ sw_report = -1

SwInit ==
    /\ sw_pc = "main"
    /\ sw_catalog \in [1..Len(SwWindows) -> SwResultLists]
    /\ \A i \in 1..Len(SwWindows) : \A k \in 1..Len(sw_catalog[i]) :
           MatchesTemporal(sw_catalog[i][k], SwWindows[i])
    /\ SwNoLocals
    /\ sw_disk = [d \in SwDays |-> SwAbsent]
    /\ sw_clean = TRUE
    /\ sw_prev = "none"
    /\ sw_report = -1

SwLocalsGone ==
    /\ sw_i' = 0
    /\ sw_files' = <<>>
    /\ sw_groups' = <<>>
    /\ sw_k' = 0
    /\ sw_total_csv' = 0

\* what authenticate() of download_full_swot.py meets: credentials and a truthy
\* earthaccess.login, no credentials in the environment, a falsy login, or a
\* login that raises
SwAuthOutcomes == {"ok", "no_credentials", "falsy", "raises"}

\* authenticate(): False without credentials, else bool(auth); the login is
\* called outside any try
SwAuthenticate(outcome) ==
    IF outcome = "ok" THEN "True"
    ELSE IF outcome = "raises" THEN "raises"
    ELSE "False"

\* main: `if not authenticate(): return`, then total_csv = 0 and the loop over
\* month_windows_desc(START_DATE, END_DATE)
SwMain ==
    /\ UNCHANGED swOthers
    /\ sw_pc = "main"
    /\ \E outcome \in SwAuthOutcomes :
          LET a == SwAuthenticate(outcome)
          IN IF a = "True"
             THEN /\ sw_i' = 1
                  /\ sw_total_csv' = 0
                  /\ sw_pc' = "window"
                  /\ UNCHANGED <<sw_files, sw_groups, sw_k, swPass>>
             ELSE /\ sw_pc' = IF a = "False" THEN "done" ELSE "aborted"
                  /\ sw_clean' = FALSE
                  /\ SwLocalsGone
                  /\ UNCHANGED <<sw_prev, sw_report>>
    /\ UNCHANGED <<sw_catalog, sw_disk>>

\* the loop head: next window, or the final print with total_csv
SwWindow ==
    /\ UNCHANGED swOthers
    /\ sw_pc = "window"
    /\ IF sw_i <= Len(SwWindows)
       THEN /\ sw_pc' = "search"
            /\ UNCHANGED <<swLocals, sw_report>>
       ELSE /\ sw_pc' = "done"
            /\ sw_report' = sw_total_csv
            /\ SwLocalsGone
    /\ UNCHANGED <<sw_catalog, sw_disk, sw_clean, sw_prev>>

\* search_and_download_month: earthaccess.search_data, the downsample, and
\* earthaccess.download; process_swot_file on each file and the grouping by day
SwSearchAndDownload ==
    /\ UNCHANGED swOthers
    /\ sw_pc = "search"
    /\ sw_files' = Downsample(sw_catalog[sw_i])
    /\ sw_groups' = DailyGroups(<<>>, Downsample(sw_catalog[sw_i]))
    /\ sw_k' = 1
    /\ sw_pc' = "export"
    /\ UNCHANGED <<sw_catalog, sw_i, sw_total_csv, sw_disk, swPass>>

\* search_data or download raises: main prints it and continues with the next window
SwSearchError ==
    /\ UNCHANGED swOthers
    /\ sw_pc = "search"
    /\ sw_clean' = FALSE
    /\ sw_i' = sw_i + 1
    /\ sw_pc' = "window"
    /\ UNCHANGED <<sw_catalog, sw_files, sw_groups, sw_k, sw_total_csv, sw_disk,
                   sw_prev, sw_report>>

\* for date, dfs in daily_groups.items(): export_daily_csv(dfs) up to the point
\* where df.to_csv has opened out_csv for writing; after the last day, next window
SwExport ==
    /\ UNCHANGED swOthers
    /\ sw_pc = "export"
    /\ IF sw_k <= Len(sw_groups)
       THEN /\ sw_disk' = [sw_disk EXCEPT ![sw_groups[sw_k][1]] =
                              [state |-> "partial", granules |-> <<>>, noise |-> 0]]
            /\ sw_pc' = "writing"
            /\ UNCHANGED swLocals
       ELSE /\ sw_i' = sw_i + 1
            /\ sw_pc' = "window"
            /\ UNCHANGED <<sw_files, sw_groups, sw_k, sw_total_csv, sw_disk>>
    /\ UNCHANGED <<sw_catalog, swPass>>

\* df.to_csv writes the rows and closes the file; total_csv += 1; time.sleep
SwWriteEnd ==
    /\ UNCHANGED swOthers
    /\ sw_pc = "writing"
    /\ \E n \in SwNoise :
          sw_disk' = [sw_disk EXCEPT ![sw_groups[sw_k][1]] =
                         [state |-> "complete", granules |-> sw_groups[sw_k][2], noise |-> n]]
    /\ sw_total_csv' = sw_total_csv + 1
    /\ sw_k' = sw_k + 1
    /\ sw_pc' = "export"
    /\ UNCHANGED <<sw_catalog, sw_i, sw_files, sw_groups, swPass>>

\* df.to_csv raises while writing (an OSError): nothing in main catches it
SwWriteError ==
    /\ UNCHANGED swOthers
    /\ sw_pc = "writing"
    /\ sw_clean' = FALSE
    /\ sw_pc' = "aborted"
    /\ SwLocalsGone
    /\ UNCHANGED <<sw_catalog, sw_disk, sw_prev, sw_report>>

\* the process is interrupted (Ctrl-C, kill) wherever it is
SwInterrupt ==
    /\ UNCHANGED swOthers
    /\ sw_pc \notin SwTerminal
    /\ sw_clean' = FALSE
    /\ sw_pc' = "killed"
    /\ SwLocalsGone
    /\ UNCHANGED <<sw_catalog, sw_disk, sw_prev, sw_report>>

\* the script is started again over the same range, against the same catalog
SwStartRun ==
    /\ UNCHANGED swOthers
    /\ sw_pc \in SwTerminal
    /\ sw_prev' = IF sw_pc = "done" /\ sw_clean THEN "clean" ELSE "failed"
    /\ sw_clean' = TRUE
    /\ sw_report' = -1
    /\ sw_pc' = "main"
    /\ UNCHANGED <<sw_catalog, swLocals, sw_disk>>

(***************************************************************************)
(* Aggregation of occurrence records on its own                            *)
(***************************************************************************)
\* longest record list drawn
MaxRecs == 3
\* largest minimum-count threshold drawn
MaxThreshold == 3

\* records drawn: two in the same cell on the same day (one with a timestamp),
\* one in another cell, one on another day, one out of range, one without latitude
AgRecordSet ==
    RecordSet \cup
    { Rec(<<12>>, <<20>>, EvDay),
      Rec(<<40>>, <<20>>, EvDay),
      Rec(<<>>, <<20>>, EvDay) }

\* the arrangements of a list: the list read through a bijection of its indices
Arrangements(q) ==
    LET n == Len(q)
        bij == {f \in [1..n -> 1..n] : \A i, j \in 1..n : (f[i] = f[j]) => (i = j)}
    IN {[i \in 1..n |-> q[f[i]]] : f \in bij}

\* the while loop of fetch_one_species_period over two pages of results:
\* counts accumulates over the pages; `if not results: break` ends the loop at
\* an empty first page, and the second page is never requested
CountPages(page1, page2) ==
    IF page1 = <<>> THEN EmptyCounts
    ELSE CountRecords(CountRecords(EmptyCounts, page1), page2)

AgIdle ==
    /\ ag_in = <<>>
    /\ ag_out = <<>>
    /\ ag_pc = "idle"

AgInit ==
    /\ \E n \in 0..MaxRecs : \E q \in [1..n -> AgRecordSet] :
          \E r \in Arrangements(q) : \E c \in 0..n :
             ag_in = [recs |-> q, other |-> r, other_cut |-> c]
    /\ ag_out = <<>>
    /\ ag_pc = "input"

\* records with every way of being unusable: no latitude, no longitude, a
\* latitude or a longitude out of range, no event date; and usable ones, one of
\* them on the edge of the ranges
ValidityRecordSet ==
    { Rec(<<>>, <<20>>, EvDay),
      Rec(<<10>>, <<>>, EvDay),
      Rec(<<95>>, <<20>>, EvDay),
      Rec(<<10>>, <<-185>>, EvDay),
      Rec(<<10>>, <<20>>, <<>>),
      Rec(<<90>>, <<-180>>, EvDay),
      Rec(<<10>>, <<20>>, EvTimestamp) }

\* the records of one page, served once
AgInitValidity ==
    /\ \E n \in 0..MaxRecs : \E q \in [1..n -> ValidityRecordSet] :
          ag_in = [recs |-> q, other |-> q, other_cut |-> n]
    /\ ag_out = <<>>
    /\ ag_pc = "input"

\* the record loops of the fetch: on the records served in one page, and on the
\* other arrangement served in two pages
AgCount ==
    /\ UNCHANGED agOthers
    /\ ag_pc = "input"
    /\ ag_out' = [counts |-> CountRecords(EmptyCounts, ag_in.recs),
                  other |-> CountPages(SubSeq(ag_in.other, 1, ag_in.other_cut),
                                       SubSeq(ag_in.other, ag_in.other_cut + 1, Len(ag_in.other))),
                  day |-> CountRecordsDay(EmptyCounts, ag_in.recs)]
    /\ ag_pc' = "counted"
    /\ UNCHANGED ag_in

\* the minimum filter at the end of the fetch, at each of the two thresholds
AgFilter ==
    /\ UNCHANGED agOthers
    /\ ag_pc = "counted"
    /\ \E m1, m2 \in 0..MaxThreshold :
          /\ m1 <= m2
          /\ ag_out' = [counts |-> ag_out.counts,
                        other |-> ag_out.other,
                        m1 |-> m1,
                        m2 |-> m2,
                        at_m1 |-> MinFilterAt(ag_out.counts, m1),
                        at_m2 |-> MinFilterAt(ag_out.counts, m2)]
    /\ ag_pc' = "filtered"
    /\ UNCHANGED ag_in

(***************************************************************************)
(* export_csv of download_full_plancton.py and extract_sst: from the grid   *)
(* of a NetCDF file to the rows per cell                                   *)
(***************************************************************************)
\* values of the scalar field: numbers, NaN, or a masked element
Num(v) == [kind |-> "num", v |-> v]
NaN == [kind |-> "nan", v |-> 0]
Masked == [kind |-> "masked", v |-> 0]
\* a value at which consecutive 32-bit floats are 2 apart: the variables of the
\* products are 32-bit floats, and the columns the exporters group are arrays
\* of that type (safe_var casts to np.float32; filling a mask and multiplying
\* by a Python float keep the type)
LargeValue == 2 ^ 24
ExValues == {Num(1), Num(2), Num(3), Num(LargeValue), NaN, Masked}
\* the values drawn for the fields of more than four elements
ExFewValues == {Num(1), Num(2), Masked}

\* an n-dimensional array: its shape and its elements in C (row-major) order
Arr(shape, flat) == [shape |-> shape, flat |-> flat]

RECURSIVE Product(_)
Product(q) == IF q = <<>> THEN 1 ELSE Head(q) * Product(Tail(q))

\* np.squeeze: the dimensions of length 1 are removed, the elements stay in order
Squeeze(a) == Arr(SelectSeq(a.shape, LAMBDA n : n # 1), a.flat)

Filled_WithZero(a) == Arr(a.shape, [i \in 1..Len(a.flat) |-> IF a.flat[i] = Masked THEN Num(0) ELSE a.flat[i]])

\* np.ma.filled(a, np.nan): masked elements become NaN
Filled(a) == Arr(a.shape, [i \in 1..Len(a.flat) |-> IF a.flat[i] = Masked THEN NaN ELSE a.flat[i]])

\* a.T of a 2-D array: element (j, i) of the result is element (i, j) of a
Transpose2D(a) ==
    LET r == a.shape[1]
        c == a.shape[2]
    IN Arr(<<c, r>>,
           [k \in 1..(r * c) |->
               LET j == (k - 1) \div r
                   i == (k - 1) % r
               IN a.flat[i * c + j + 1]])

\* shape of a.T for any number of dimensions: the shape reversed
ShapeT(a) == [i \in 1..Len(a.shape) |-> a.shape[Len(a.shape) + 1 - i]]

\* np.meshgrid(lons, lats): both grids have shape (len(lats), len(lons));
\* raveled, the longitude varies fastest
MeshShape(lats, lons) == <<Len(lats), Len(lons)>>
LatGridRavel(lats, lons) ==
    [k \in 1..(Len(lats) * Len(lons)) |-> lats[((k - 1) \div Len(lons)) + 1]]
LonGridRavel(lats, lons) ==
    [k \in 1..(Len(lats) * Len(lons)) |-> lons[((k - 1) % Len(lons)) + 1]]

\* pd.DataFrame({"latitude": ..., "longitude": ..., value: field.ravel()})
PointRows(lats, lons, field) ==
    [k \in 1..(Len(lats) * Len(lons)) |->
        [lat |-> LatGridRavel(lats, lons)[k],
         lon |-> LonGridRavel(lats, lons)[k],
         val |-> field.flat[k]]]

\* .dropna(subset=[value])
DropNa(points) == SelectSeq(points, LAMBDA p : p.val # NaN)

\* a / b for a >= 0 and b > 0 rounded to the nearest integer, a tie to the
\* even one
RoundHalfEven(a, b) ==
    LET q == a \div b
        r == a % b
    IN IF 2 * r > b \/ (2 * r = b /\ q % 2 = 1) THEN q + 1 ELSE q

RECURSIVE Ulp32(_)
\* the distance between consecutive 32-bit floats at an integer a >= 0: the
\* significand has 24 bits, so it is 1 below 2^24 and doubles with each
\* further bit
Ulp32(a) == IF a < 2 ^ 24 THEN 1 ELSE 2 * Ulp32(a \div 2)

\* the 32-bit float an integer is rounded to (round to nearest, ties to even)
Float32(x) ==
    LET a == IF x < 0 THEN 0 - x ELSE x
        u == Ulp32(a)
        r == RoundHalfEven(a, u) * u
    IN IF x < 0 THEN 0 - r ELSE r

\* a coordinate or a mean as a quotient
Quot(num, den) == [num |-> num, den |-> den]

RECURSIVE Scale32(_, _, _)
\* the largest power of two d, from d on, with (a * d) / n below 2^24
Scale32(a, n, d) == IF (a * 2 * d) \div n < 2 ^ 24 THEN Scale32(a, n, 2 * d) ELSE d

RECURSIVE Lowest(_)
\* a quotient over a power of two in lowest terms
Lowest(x) ==
    IF x.den > 1 /\ x.num % 2 = 0 THEN Lowest(Quot(x.num \div 2, x.den \div 2)) ELSE x

\* the 32-bit float a / n of a 32-bit float a >= 0 and a count n > 0: the exact
\* quotient rounded to 24 significant bits, as a quotient over a power of two
Float32DivPos(a, n) ==
    IF a = 0 THEN Quot(0, 1)
    ELSE IF a \div n >= 2 ^ 24
         THEN LET u == Ulp32(a \div n)
              IN Quot(RoundHalfEven(a, n * u) * u, 1)
         ELSE LET d == Scale32(a, n, 1)
              IN Lowest(Quot(RoundHalfEven(a * d, n), d))

\* sumx / count of the "mean" kernel, in the type of the column
Float32Div(a, n) ==
    IF a < 0 THEN Quot(0 - Float32DivPos(0 - a, n).num, Float32DivPos(0 - a, n).den)
    ELSE Float32DivPos(a, n)

\* one value added to the running sum of the "mean" kernel, which sums in the
\* type of the column with a compensation term (Kahan): y = val - c,
\* t = sum + y, c = (t - sum) - y, sum = t, each operation rounded
KahanAdd(acc, v) ==
    LET y == Float32(v - acc.comp)
        t == Float32(acc.sum + y)
    IN [sum |-> t, comp |-> Float32(Float32(t - acc.sum) - y)]

\* one row of the groupby kernels: count, sum, min and max skip NaN
GroupStep(acc, cell, val) ==
    LET old == IF cell \in DOMAIN acc THEN acc[cell]
               ELSE [n |-> 0, sum |-> 0, comp |-> 0, min |-> NaN, max |-> NaN]
        added == KahanAdd(old, val.v)
        new == IF val = NaN THEN old
               ELSE [n |-> old.n + 1,
                     sum |-> added.sum,
                     comp |-> added.comp,
                     min |-> IF old.n = 0 \/ val.v < old.min.v THEN val ELSE old.min,
                     max |-> IF old.n = 0 \/ val.v > old.max.v THEN val ELSE old.max]
    IN [c \in (DOMAIN acc) \cup {cell} |-> IF c = cell THEN new ELSE acc[c]]

RECURSIVE GroupFold(_, _, _)
\* the kernels read the rows of the frame in order
GroupFold(acc, points, res) ==
    IF points = <<>> THEN acc
    ELSE GroupFold(GroupStep(acc, _latlng_to_h3(Head(points).lat, Head(points).lon, res),
                             Head(points).val),
                   Tail(points), res)

\* df["h3"] = [...]; df.groupby("h3").agg(mean, min, max, count): per cell the
\* count, the sum the mean is taken from, the mean sum / count, the min and
\* the max
GroupStats(points, res) ==
    LET g == GroupFold(<<>>, points, res)
    IN [c \in DOMAIN g |->
           [n |-> g[c].n, sum |-> g[c].sum, mean |-> Float32Div(g[c].sum, g[c].n),
            min |-> g[c].min, max |-> g[c].max]]

\* the smallest and the largest element of a sequence of numbers
SeqMin(q) == CHOOSE x \in {q[i] : i \in 1..Len(q)} : \A i \in 1..Len(q) : x <= q[i]
SeqMax(q) == CHOOSE x \in {q[i] : i \in 1..Len(q)} : \A i \in 1..Len(q) : x >= q[i]

\* np.nanmin and np.nanmax of an array: NaN when every element is NaN
NanMin(flat) ==
    LET nums == SelectSeq(flat, LAMBDA x : x.kind = "num")
    IN IF nums = <<>> THEN NaN ELSE Num(SeqMin([i \in 1..Len(nums) |-> nums[i].v]))
NanMax(flat) ==
    LET nums == SelectSeq(flat, LAMBDA x : x.kind = "num")
    IN IF nums = <<>> THEN NaN ELSE Num(SeqMax([i \in 1..Len(nums) |-> nums[i].v]))

\* the statistics export_csv takes of the whole file before the mesh is built:
\* chlor_a_min, chlor_a_max, lat_range, lon_range
UnitStats(lats, lons, chl) ==
    [min |-> NanMin(chl.flat), max |-> NanMax(chl.flat),
     lat_range |-> <<SeqMin(lats), SeqMax(lats)>>,
     lon_range |-> <<SeqMin(lons), SeqMax(lons)>>]

\* the points of one cell
CellPoints(points, cell, res) ==
    SelectSeq(points, LAMBDA p : _latlng_to_h3(p.lat, p.lon, res) = cell)


\* the square of an integer d with |d| < 2^25 in two limbs <<hi, lo>>, of value
\* hi * 2^24 + lo with lo < 2^24
Square(d) ==
    LET a == IF d < 0 THEN 0 - d ELSE d
        dh == a \div (2 ^ 12)
        dl == a % (2 ^ 12)
        mid == 2 * dh * dl
        low == (mid % (2 ^ 12)) * (2 ^ 12) + dl * dl
    IN <<dh * dh + mid \div (2 ^ 12) + low \div (2 ^ 24), low % (2 ^ 24)>>

\* the sum of two such numbers
Plus(x, y) == <<x[1] + y[1] + (x[2] + y[2]) \div (2 ^ 24), (x[2] + y[2]) % (2 ^ 24)>>

RECURSIVE SquaredDifferences(_)
\* the sum over the pairs of a sequence of the squared differences, which is
\* n times the sum of the squared deviations from the mean
SquaredDifferences(q) ==
    IF Len(q) < 2 THEN <<0, 0>>
    ELSE LET RECURSIVE FromHead(_)
             FromHead(k) == IF k > Len(q) THEN <<0, 0>>
                            ELSE Plus(Square(q[1] - q[k]), FromHead(k + 1))
         IN Plus(FromHead(2), SquaredDifferences(Tail(q)))

\* the "std" kernel of pandas (ddof = 1) on the values of a group, which it
\* takes in 64-bit floats: NaN for fewer than two values, else the root of
\* v / (n (n - 1)), kept as the exact v in two limbs
PandasStd(ps) ==
    LET n == Len(ps)
        v == SquaredDifferences([i \in 1..n |-> ps[i].val.v])
    IN IF n < 2 THEN NaN ELSE [kind |-> "std", hi |-> v[1], lo |-> v[2]]

\* .fillna(0.0)
FillNa0(x) == IF x = NaN THEN Num(0) ELSE x

\* the rows of the aggregated CSV of export_csv: the per-cell statistics, the
\* centre of the cell from _h3_to_latlng, and the constant columns
ExportRows(points, res, unit) ==
    LET g == GroupStats(points, res)
    IN {[h3 |-> c, n |-> g[c].n, sum |-> g[c].sum, mean |-> g[c].mean,
         chlor_a_min |-> g[c].min, chlor_a_max |-> g[c].max,
         std |-> PandasStd(CellPoints(points, c, res)),
         centroid_lat |-> Quot(_h3_to_latlng(c)[1], 1),
         centroid_lon |-> Quot(_h3_to_latlng(c)[2], 1),
         lat_range |-> unit.lat_range, lon_range |-> unit.lon_range] : c \in DOMAIN g}

RECURSIVE KahanSum(_, _)
\* the sum pandas' group_mean keeps over the values of one group, in frame order
KahanSum(acc, q) == IF q = <<>> THEN acc ELSE KahanSum(KahanAdd(acc, Head(q)), Tail(q))

\* ("latitude", "mean"), ("longitude", "mean"): group_mean over a float32
\* coordinate column, the compensated sum divided by the count and rounded
\* to float32
GroupMean(q) == Float32Div(KahanSum([sum |-> 0, comp |-> 0], q).sum, Len(q))

\* a column of the points of one cell, in frame order
Column(ps, F(_)) == [i \in 1..Len(ps) |-> F(ps[i])]

\* the rows of aggregate_h3 of extract_data_sst_nc.py: the std with NaN
\* replaced by 0.0, latitude and longitude the float32 means of the points of
\* the cell
AggregateH3Rows(points, res) ==
    LET g == GroupStats(points, res)
    IN {[h3 |-> c, n |-> g[c].n, sum |-> g[c].sum, mean |-> g[c].mean,
         std |-> FillNa0(PandasStd(CellPoints(points, c, res))),
         centroid_lat |-> GroupMean(Column(CellPoints(points, c, res), LAMBDA p : p.lat)),
         centroid_lon |-> GroupMean(Column(CellPoints(points, c, res), LAMBDA p : p.lon))]
         : c \in DOMAIN g}

\* AGGREGATE_H3 of download_full_swot.py
AGGREGATE_H3 == FALSE

\* the rows of the AGGREGATE_H3 branch of process_swot_file: latitude and
\* longitude "mean", ssh_karin "mean" and "std"
SwotGroupedRows(points, res) ==
    LET g == GroupStats(points, res)
    IN {[h3 |-> c, n |-> g[c].n, sum |-> g[c].sum, mean |-> g[c].mean,
         std |-> PandasStd(CellPoints(points, c, res)),
         centroid_lat |-> GroupMean(Column(CellPoints(points, c, res), LAMBDA p : p.lat)),
         centroid_lon |-> GroupMean(Column(CellPoints(points, c, res), LAMBDA p : p.lon))]
         : c \in DOMAIN g}

ExLats == {<<10, 12>>, <<10, 12, 40>>}
ExLons == {<<20, 22>>, <<20, 22, 40>>}
ExShapes == {<<2, 2>>, <<2, 3>>, <<3, 2>>, <<1, 2, 2>>}

ExIdle ==
    /\ ex_in = <<>>
    /\ ex_out = <<>>
    /\ ex_pc = "idle"

ExInit ==
    /\ \E lats \in ExLats : \E lons \in ExLons : \E shape \in ExShapes :
          \E flat \in [1..Product(shape) -> IF Product(shape) <= 4 THEN ExValues ELSE ExFewValues] :
             ex_in = [lats |-> lats, lons |-> lons, field |-> Arr(shape, flat)]
    /\ ex_out = <<>>
    /\ ex_pc = "input"

\* scale_factor and add_offset when the variable has no such attributes:
\* getattr(..., "scale_factor", 1.0) and getattr(..., "add_offset", 0.0)
DefaultSstAttrs == [scale_factor |-> 1, add_offset |-> 0]

\* the attributes of the "sst" variable drawn: none, and offsets that bring
\* the values drawn to either edge of the interval of valid temperatures
ExSstAttrs ==
    { DefaultSstAttrs,
      [scale_factor |-> 1, add_offset |-> -4],
      [scale_factor |-> 1, add_offset |-> 42],
      [scale_factor |-> 2, add_offset |-> 40] }

\* sst_celsius = sst * scale_factor + add_offset, each operation rounded to the
\* type of the array: NaN stays NaN
SstCelsius(a, attrs) ==
    Arr(a.shape, [i \in 1..Len(a.flat) |->
                     IF a.flat[i] = NaN THEN NaN
                     ELSE Num(Float32(Float32(a.flat[i].v * attrs.scale_factor)
                                      + attrs.add_offset))])

\* df[(df["sst_celsius"] > -2) & (df["sst_celsius"] < 45)]
ValidSst(points) == SelectSeq(points, LAMBDA p : p.val.v > -2 /\ p.val.v < 45)

\* the exporter raised before to_csv: no artifact
ExFailed(why) ==
    [status |-> why, transposed |-> FALSE, used |-> <<>>, points |-> <<>>, rows |-> <<>>,
     written |-> FALSE, table |-> {}, unit |-> <<>>, attrs |-> DefaultSstAttrs]

\* export_csv of download_full_plancton.py (download_full_sst.py has the same
\* steps on "sst"), with h3_resolution = H3_RESOLUTION and h3_aggregate = True
ExportCsv ==
    /\ UNCHANGED exOthers
    /\ ex_pc = "input"
    /\ LET chl == Filled(Squeeze(ex_in.field))
           mesh == MeshShape(ex_in.lats, ex_in.lons)
       IN IF Len(chl.shape) # 2 THEN ex_out' = ExFailed("ndim_error")
          ELSE IF chl.shape # mesh /\ ShapeT(chl) # mesh
               THEN ex_out' = ExFailed("shape_error")
               ELSE LET t == chl.shape # mesh
                        used == IF t THEN Transpose2D(chl) ELSE chl
                        points == DropNa(PointRows(ex_in.lats, ex_in.lons, used))
                        unit == UnitStats(ex_in.lats, ex_in.lons, chl)
                    IN ex_out' = [status |-> "ok", transposed |-> t, used |-> used,
                                  points |-> points,
                                  rows |-> GroupStats(points, H3_RESOLUTION),
                                  written |-> TRUE,
                                  table |-> ExportRows(points, H3_RESOLUTION, unit),
                                  unit |-> unit,
                                  attrs |-> DefaultSstAttrs]
    /\ ex_pc' = "done"
    /\ UNCHANGED ex_in

\* extract_sst of extract_data_sst_nc.py followed by aggregate_h3 and to_csv in
\* its main: the scaling of the variable, the orientation, the rows without
\* NaN and with a temperature inside (-2, 45); the DataFrame constructor
\* raises when the columns differ in length
ExtractSst ==
    /\ UNCHANGED exOthers
    /\ ex_pc = "input"
    /\ \E attrs \in ExSstAttrs :
          LET sst == Filled(ex_in.field)
              sst_celsius == SstCelsius(sst, attrs)
              mesh == MeshShape(ex_in.lats, ex_in.lons)
              t == ShapeT(sst_celsius) = mesh
              used == IF t THEN Transpose2D(sst_celsius) ELSE sst_celsius
          IN IF Len(used.flat) # mesh[1] * mesh[2]
             THEN ex_out' = [ExFailed("length_error") EXCEPT !.attrs = attrs]
             ELSE LET points == ValidSst(DropNa(PointRows(ex_in.lats, ex_in.lons, used)))
                  IN ex_out' = [status |-> "ok_sst", transposed |-> t, used |-> used,
                                points |-> points,
                                rows |-> GroupStats(points, H3_RESOLUTION),
                                written |-> TRUE,
                                table |-> AggregateH3Rows(points, H3_RESOLUTION),
                                unit |-> <<>>,
                                attrs |-> attrs]
    /\ ex_pc' = "done"
    /\ UNCHANGED ex_in

\* safe_var of download_full_swot.py: np.ma.filled(arr, np.nan), then
\* np.nan_to_num(arr, nan=0.0, posinf=0.0, neginf=0.0)
SafeVar(a) ==
    Arr(a.shape, [i \in 1..Len(a.flat) |->
                     IF Filled(a).flat[i] = NaN THEN Num(0) ELSE Filled(a).flat[i]])

\* compute_gradients(ssh) returns: an array of size 0 is answered with zeros
\* before any gradient is taken; otherwise `dssh_dy, dssh_dx = np.gradient(ssh)`
\* and the gradients along axis 0 and axis 1 need a 2-D array with at least
\* two elements along each axis, and on any other array an exception is raised
GradientsOk(ssh) ==
    \/ Product(ssh.shape) = 0
    \/ /\ Len(ssh.shape) = 2
       /\ ssh.shape[1] >= 2
       /\ ssh.shape[2] >= 2

\* process_swot_file with AGGREGATE_H3 = False, on a file whose latitude and
\* longitude variables hold the mesh of ex_in.lats and ex_in.lons and whose
\* ssh_karin, like its other variables, has the shape of ex_in.field:
\* a variable of size 0 raises ValueError, compute_gradients is called on ssh
\* as read, the arrays are raveled, the mask of the finite latitude, longitude
\* and ssh is applied (it raises when the lengths differ), and one row per
\* point is built; on any exception the function returns None
ProcessSwotFile ==
    /\ UNCHANGED exOthers
    /\ ex_pc = "input"
    /\ LET ssh == SafeVar(ex_in.field)
           lat == LatGridRavel(ex_in.lats, ex_in.lons)
           lon == LonGridRavel(ex_in.lats, ex_in.lons)
       IN IF \/ Len(lat) = 0 \/ Len(lon) = 0 \/ Len(ssh.flat) = 0
             \/ ~GradientsOk(ssh)
             \/ Len(ssh.flat) # Len(lat)
          THEN ex_out' = ExFailed("none")
          ELSE LET points == [k \in 1..Len(lat) |->
                                 [lat |-> lat[k], lon |-> lon[k], val |-> ssh.flat[k]]]
               IN ex_out' = [status |-> "ok_swot", transposed |-> FALSE,
                             used |-> Arr(<<Len(ssh.flat)>>, ssh.flat),
                             points |-> points,
                             rows |-> <<>>,
                             written |-> TRUE,
                             table |-> IF AGGREGATE_H3 THEN SwotGroupedRows(points, H3_RESOLUTION)
                                       ELSE {},
                             unit |-> <<>>,
                             attrs |-> DefaultSstAttrs]
    /\ ex_pc' = "done"
    /\ UNCHANGED ex_in

\* longest point list of which every arrangement is grouped again
MaxArranged == 4

\* the same points in another order through the same groupby
ExRegroup ==
    /\ UNCHANGED exOthers
    /\ ex_pc = "done"
    /\ ex_out.written
    /\ ex_out.status \in {"ok", "ok_sst"}
    /\ Len(ex_out.points) <= MaxArranged
    /\ \E r \in Arrangements(ex_out.points) :
          ex_out' = [ex_out EXCEPT !.status = "regrouped",
                                   !.rows = GroupStats(r, H3_RESOLUTION)] @@
                    [first_rows |-> ex_out.rows]
    /\ ex_pc' = "regrouped"
    /\ UNCHANGED ex_in

(***************************************************************************)
(* The date resolvers: _infer_date_string of download_full_plancton.py,    *)
(* the date block of export_csv in download_plancton.py, and the one of    *)
(* extract_sst. Strings are sequences of characters.                       *)
(***************************************************************************)
Digits == {"0", "1", "2", "3", "4", "5", "6", "7", "8", "9"}

DigitVal(c) ==
    CASE c = "0" -> 0 [] c = "1" -> 1 [] c = "2" -> 2 [] c = "3" -> 3 [] c = "4" -> 4
      [] c = "5" -> 5 [] c = "6" -> 6 [] c = "7" -> 7 [] c = "8" -> 8 [] c = "9" -> 9

DigitChar(n) ==
    CASE n = 0 -> "0" [] n = 1 -> "1" [] n = 2 -> "2" [] n = 3 -> "3" [] n = 4 -> "4"
      [] n = 5 -> "5" [] n = 6 -> "6" [] n = 7 -> "7" [] n = 8 -> "8" [] n = 9 -> "9"

\* s.isdigit() for a string of ASCII characters
IsDigitStr(q) == q # <<>> /\ \A i \in 1..Len(q) : q[i] \in Digits

RECURSIVE ToInt(_)
\* int(s) of a string of digits
ToInt(q) ==
    IF q = <<>> THEN 0
    ELSE 10 * ToInt(SubSeq(q, 1, Len(q) - 1)) + DigitVal(q[Len(q)])

\* c in s
Contains(q, c) == \E i \in 1..Len(q) : q[i] = c

RECURSIVE ReplaceZ(_)
\* s.replace("Z", "+00:00")
ReplaceZ(q) ==
    IF q = <<>> THEN <<>>
    ELSE (IF Head(q) = "Z" THEN <<"+", "0", "0", ":", "0", "0">> ELSE <<Head(q)>>) \o ReplaceZ(Tail(q))

\* q has the form of pat, where "d" in pat stands for any digit
Like(q, pat) ==
    /\ Len(q) = Len(pat)
    /\ \A i \in 1..Len(pat) : IF pat[i] = "d" THEN q[i] \in Digits ELSE q[i] = pat[i]

\* a date the datetime module accepts
ValidYMD(y, m, d) ==
    /\ 1 <= y /\ y <= 9999
    /\ 1 <= m /\ m <= 12
    /\ 1 <= d /\ d <= DaysInMonth(y, m)

\* the result of a parse that raised ValueError
NoDate == <<>>

\* the character at position p of q (positions from 1), and the terminator
\* the parser reads at and past the end of the string
EndOfString == ""
Ch(q, p) == IF 1 <= p /\ p <= Len(q) THEN q[p] ELSE EndOfString

IsoFailed == [ok |-> FALSE]

\* parse_digits of the datetime module: n digits from position p on
parse_digits(q, p, n) ==
    IF \A k \in 0..(n - 1) : Ch(q, p + k) \in Digits
    THEN [ok |-> TRUE, val |-> ToInt(SubSeq(q, p, p + n - 1)), p |-> p + n]
    ELSE IsoFailed

RECURSIVE SkipDigits(_, _)
\* the first position from p on that holds no digit
SkipDigits(q, p) == IF Ch(q, p) \in Digits THEN SkipDigits(q, p + 1) ELSE p

\* the fraction of a second between p and p_end. Up to 3.10 it has three or
\* six digits; from 3.11 on the first six digits count and further digits are
\* skipped. rv is 1 when the parse stops before the end of the string.
ParseFraction(q, p, p_end, vals, py311) ==
    LET len_remains == p_end - p
        to_parse == IF len_remains >= 6 THEN 6 ELSE len_remains
        d == IF len_remains < 1 THEN IsoFailed ELSE parse_digits(q, p, to_parse)
    IN IF ~py311 /\ len_remains \notin {3, 6} THEN [rv |-> -3]
       ELSE IF ~d.ok THEN [rv |-> -3]
       ELSE LET stop == IF py311 THEN SkipDigits(q, d.p) ELSE d.p
            IN [rv |-> IF Ch(q, stop) # EndOfString THEN 1 ELSE 0,
                vals |-> vals,
                us |-> d.val * (10 ^ (6 - to_parse))]

RECURSIVE ParseFields(_, _, _, _, _, _, _)
\* the loop of parse_hh_mm_ss_ff over hour, minute and second (i = 0, 1, 2).
\* Up to 3.10 the fields are separated by ":" and the fraction follows ".";
\* from 3.11 on the separator is used throughout or not at all, as after the
\* hour, and the fraction follows "." or ",".
ParseFields(q, p, p_end, i, has_separator, vals, py311) ==
    LET d == parse_digits(q, p, 2)
    IN IF ~d.ok THEN [rv |-> -3]
       ELSE LET set == [vals EXCEPT ![i + 1] = d.val]
                c == Ch(q, d.p)
                next == d.p + 1
                sep == IF ~py311 THEN TRUE ELSE IF i = 0 THEN c = ":" ELSE has_separator
            IN IF next >= p_end
               THEN [rv |-> IF c # EndOfString THEN 1 ELSE 0, vals |-> set, us |-> 0]
               ELSE IF sep /\ c = ":"
               THEN IF i = 2 THEN ParseFraction(q, next, p_end, set, py311)
                    ELSE ParseFields(q, next, p_end, i + 1, sep, set, py311)
               ELSE IF c = "." \/ (py311 /\ c = ",")
               THEN ParseFraction(q, next, p_end, set, py311)
               ELSE IF ~sep
               THEN IF i = 2 THEN ParseFraction(q, next - 1, p_end, set, py311)
                    ELSE ParseFields(q, next - 1, p_end, i + 1, sep, set, py311)
               ELSE [rv |-> -4]

\* parse_hh_mm_ss_ff of the datetime module on the characters of q from tstr
\* up to tstr_end: rv < 0 when it fails, else the fields and the microseconds
parse_hh_mm_ss_ff(q, tstr, tstr_end, py311) ==
    ParseFields(q, tstr, tstr_end, 0, TRUE, <<0, 0, 0>>, py311)

\* the characters that open the UTC offset: "Z" from 3.11 on
OffsetMarks(py311) == IF py311 THEN {"Z", "+", "-"} ELSE {"+", "-"}

\* a time of the day the datetime constructor accepts
ValidHMS(vals) == vals[1] < 24 /\ vals[2] < 60 /\ vals[3] < 60

\* an offset timezone() accepts: strictly less than 24 hours. The fraction
\* of a second is less than a second, so the whole seconds decide.
ValidOffset(vals) == vals[1] * 3600 + vals[2] * 60 + vals[3] < 86400

\* parse_isoformat_time of the datetime module on the characters of q from
\* position p on, and the checks of the constructors on what it parsed:
\* TRUE when a time (with or without offset) results. Before 3.11 the text of
\* the offset, its sign included, has 6, 9 or 16 characters.
IsoTimeOk(q, p, py311) ==
    LET p_end == Len(q) + 1
        marks == {k \in p..(p_end - 1) : q[k] \in OffsetMarks(py311)}
        tzinfo_pos == IF marks # {} THEN CHOOSE k \in marks : \A j \in marks : k <= j
                      ELSE IF p_end > p THEN p_end ELSE p + 1
        time == parse_hh_mm_ss_ff(q, p, tzinfo_pos, py311)
    IN IF time.rv < 0 THEN FALSE
       ELSE IF tzinfo_pos = p_end THEN time.rv = 0 /\ ValidHMS(time.vals)
       ELSE IF Ch(q, tzinfo_pos) = "Z"
       THEN Ch(q, tzinfo_pos + 1) = EndOfString /\ ValidHMS(time.vals)
       ELSE IF ~py311 /\ (p_end - tzinfo_pos) \notin {6, 9, 16} THEN FALSE
       ELSE LET tz == parse_hh_mm_ss_ff(q, tzinfo_pos + 1, p_end, py311)
            IN tz.rv = 0 /\ ValidOffset(tz.vals) /\ ValidHMS(time.vals)

\* _find_isoformat_datetime_separator of the datetime module (3.11 on): the
\* number of characters of the date, -1 when there is none
FindSeparator(q) ==
    LET len == Len(q)
    IN IF len = 7 THEN 7
       ELSE IF Ch(q, 5) = "-"
       THEN IF Ch(q, 6) = "W"
            THEN IF len < 8 THEN -1
                 ELSE IF len > 8 /\ Ch(q, 9) = "-"
                 THEN IF len = 9 THEN -1
                      ELSE IF len > 10 /\ Ch(q, 11) \in Digits THEN 8
                      ELSE 10
                 ELSE 8
            ELSE 10
       ELSE IF Ch(q, 5) = "W"
       THEN LET idx == SkipDigits(SubSeq(q, 1, len), 8) - 1
            IN IF idx < 9 THEN idx ELSE IF idx % 2 = 0 THEN 7 ELSE 8
       ELSE 8

\* iso_to_ymd of the datetime module: the day of an ISO year, week and
\* weekday, NoDate when the week or the weekday is out of range
iso_to_ymd(iso_year, iso_week, iso_day) ==
    IF iso_year < 1 THEN NoDate
    ELSE LET first_day == ToOrdinal(<<iso_year, 1, 1>>)
             first_weekday == (first_day + 6) % 7
             monday == first_day - first_weekday
             week1_monday == IF first_weekday > 3 THEN monday + 7 ELSE monday
             long_year == first_weekday = 3 \/ (first_weekday = 2 /\ IsLeap(iso_year))
             n == week1_monday + (iso_week - 1) * 7 + iso_day - 1
         IN IF iso_week <= 0 \/ iso_week > 53 \/ (iso_week = 53 /\ ~long_year) THEN NoDate
            ELSE IF iso_day <= 0 \/ iso_day >= 8 THEN NoDate
            ELSE IF n < 1 \/ n > ToOrdinal(<<9999, 12, 31>>) THEN NoDate
            ELSE FromOrdinal(n)

\* parse_isoformat_date of the datetime module on the first len characters
\* of q, and the check of the constructor: the date, NoDate when it fails.
\* Up to 3.10 the form is YYYY-MM-DD; from 3.11 on also YYYYMMDD and the
\* week dates YYYY-Www[-D] and YYYYWww[D].
parse_isoformat_date(q, len, py311) ==
    LET year == parse_digits(q, 1, 4)
        uses_separator == Ch(q, 5) = "-"
        p == IF uses_separator THEN 6 ELSE 5
    IN IF ~year.ok THEN NoDate
       ELSE IF ~py311 /\ ~uses_separator THEN NoDate
       ELSE IF py311 /\ Ch(q, p) = "W"
       THEN LET week == parse_digits(q, p + 1, 2)
                more == week.ok /\ week.p - 1 < len
                dash == more /\ uses_separator
                day == IF more THEN parse_digits(q, IF dash THEN week.p + 1 ELSE week.p, 1)
                       ELSE [ok |-> TRUE, val |-> 1]
            IN IF ~week.ok THEN NoDate
               ELSE IF dash /\ Ch(q, week.p) # "-" THEN NoDate
               ELSE IF ~day.ok THEN NoDate
               ELSE iso_to_ymd(year.val, week.val, day.val)
       ELSE LET month == parse_digits(q, p, 2)
                day == IF ~month.ok THEN IsoFailed
                       ELSE IF uses_separator /\ Ch(q, month.p) # "-" THEN IsoFailed
                       ELSE parse_digits(q, IF uses_separator THEN month.p + 1 ELSE month.p, 2)
            IN IF ~day.ok THEN NoDate
               ELSE IF ValidYMD(year.val, month.val, day.val) THEN <<year.val, month.val, day.val>>
               ELSE NoDate

\* datetime.fromisoformat(x), reduced to the date of the result: NoDate when
\* it raises. One character, whichever it is, separates the date and the time.
fromisoformat(x, py311) ==
    LET separator_location == IF py311 THEN FindSeparator(x) ELSE 10
        date == parse_isoformat_date(x, separator_location, py311)
    IN IF Len(x) < (IF py311 THEN 7 ELSE 10) \/ separator_location < 0 THEN NoDate
       ELSE IF date = NoDate THEN NoDate
       ELSE IF Len(x) > separator_location /\ ~IsoTimeOk(x, separator_location + 2, py311) THEN NoDate
       ELSE date

\* datetime.strptime(s, "%Y%m%d") on a string of eight digits
strptime_Ymd(q) ==
    LET y == ToInt(SubSeq(q, 1, 4))
        m == ToInt(SubSeq(q, 5, 6))
        d == ToInt(SubSeq(q, 7, 8))
    IN IF Like(q, <<"d", "d", "d", "d", "d", "d", "d", "d">>) /\ ValidYMD(y, m, d) THEN <<y, m, d>> ELSE NoDate

\* n written with w digits
Padded(n, w) == [i \in 1..w |-> DigitChar((n \div (10 ^ (w - i))) % 10)]

RECURSIVE Decimal(_)
\* f"{n}" of a natural number
Decimal(n) == IF n < 10 THEN <<DigitChar(n)>> ELSE Append(Decimal(n \div 10), DigitChar(n % 10))

\* d.strftime("%Y-%m-%d"): the C library writes %Y as the year in decimal,
\* without leading zeros
strftime_Ymd(d) == Decimal(d[1]) \o <<"-">> \o Padded(d[2], 2) \o <<"-">> \o Padded(d[3], 2)

\* d.isoformat() of a date: the year is written with four digits
isoformat(d) == Padded(d[1], 4) \o <<"-">> \o Padded(d[2], 2) \o <<"-">> \o Padded(d[3], 2)

\* the characters int() skips at both ends of a string of Latin-1 characters:
\* tab, line feed, vertical tab (0x0b), form feed, carriage return, space,
\* next line (0x85) and no-break space (0xa0); the separators 0x1c to 0x1f,
\* which str.strip() removes, make int() raise
Whitespace == {" ", "\t", "\n", "", "\f", "\r", "", " "}

\* the string between the white space int() skips at its two ends
Strip(q) ==
    LET keep == {i \in 1..Len(q) : q[i] \notin Whitespace}
    IN IF keep = {} THEN <<>>
       ELSE SubSeq(q, CHOOSE i \in keep : \A j \in keep : i <= j,
                      CHOOSE i \in keep : \A j \in keep : j <= i)

\* integers from here on stand for one another: each is past every year and
\* every day count of the calendar
IntCap == 10 ^ 7

\* int(s) of a string of Latin-1 characters: <<>> when it raises ValueError,
\* else <<n>>. White space is skipped at both ends, one sign may lead, and
\* single underscores may stand between digits.
int(s) ==
    LET t == Strip(s)
        signed == t # <<>> /\ t[1] \in {"+", "-"}
        body == IF signed THEN Tail(t) ELSE t
        digits == SelectSeq(body, LAMBDA c : c \in Digits)
        nonzero == {i \in 1..Len(digits) : digits[i] # "0"}
        significant == IF nonzero = {} THEN <<>>
                       ELSE SubSeq(digits, CHOOSE i \in nonzero : \A j \in nonzero : i <= j,
                                   Len(digits))
        n == IF Len(significant) > 7 THEN IntCap ELSE ToInt(significant)
    IN IF \/ body = <<>>
          \/ body[1] \notin Digits
          \/ body[Len(body)] \notin Digits
          \/ \E i \in 1..Len(body) : body[i] \notin Digits \cup {"_"}
          \/ \E i \in 1..(Len(body) - 1) : body[i] = "_" /\ body[i + 1] = "_"
       THEN <<>>
       ELSE IF signed /\ t[1] = "-" THEN <<0 - n>> ELSE <<n>>

\* datetime(year, 1, 1) + timedelta(days=doy - 1): NoDate when it raises
\* (ValueError for a year outside 1..9999, OverflowError past 9999-12-31)
FromYearDoy(year, doy) ==
    IF year < 1 \/ year > 9999 THEN NoDate
    ELSE LET n == ToOrdinal(<<year, 1, 1>>) + doy - 1
         IN IF n < 1 \/ n > ToOrdinal(<<9999, 12, 31>>) THEN NoDate ELSE FromOrdinal(n)

\* os.path.basename
Basename(path) ==
    LET slashes == {i \in 1..Len(path) : path[i] = "/"}
    IN IF slashes = {} THEN path
       ELSE SubSeq(path, (CHOOSE i \in slashes : \A j \in slashes : j <= i) + 1, Len(path))

\* re.search of a literal character followed by n digits (and then, if closing
\* is not <<>>, by that character): the digits of the first match, <<>> if none
SearchDigits(q, opening, n, closing) ==
    LET hits == {i \in 1..Len(q) :
                    /\ q[i] = opening
                    /\ i + n + Len(closing) <= Len(q)
                    /\ \A j \in 1..n : q[i + j] \in Digits
                    /\ closing # <<>> => q[i + n + 1] = closing[1]}
    IN IF hits = {} THEN <<>>
       ELSE LET i == CHOOSE h \in hits : \A g \in hits : h <= g
            IN SubSeq(q, i + 1, i + n)

\* the attribute names, in the order _infer_date_string reads them
RANGE_ATTRS == <<"time_coverage_start", "start_time", "time_coverage_end", "end_time">>

\* "data_nao_encontrada"
SENTINEL == <<"d", "a", "t", "a", "_", "n", "a", "o", "_", "e", "n", "c", "o", "n", "t", "r", "a", "d", "a">>
\* "unknown"
SENTINEL_SST == <<"u", "n", "k", "n", "o", "w", "n">>

Returned(by, text) == [by |-> by, raised |-> FALSE, text |-> text]
Raised(by) == [by |-> by, raised |-> TRUE, text |-> <<>>]

\* the body of the try in the attribute loop of _infer_date_string: the date
\* returned, or NoDate when nothing is returned (no branch taken, or an
\* exception caught)
TryRangeAttr(str, py311) ==
    IF Contains(str, "T") THEN fromisoformat(ReplaceZ(str), py311)
    ELSE IF Len(str) = 8 /\ IsDigitStr(str) THEN strptime_Ymd(str)
    ELSE NoDate

RECURSIVE InferFromAttrs(_, _, _)
\* for attr in (...): if hasattr(ds, attr): s = getattr(ds, attr); if s: try ...
InferFromAttrs(attrs, names, py311) ==
    IF names = <<>> THEN NoDate
    ELSE LET a == Head(names)
             d == IF a \in DOMAIN attrs /\ attrs[a] # <<>> THEN TryRangeAttr(attrs[a], py311) ELSE NoDate
         IN IF d # NoDate THEN d ELSE InferFromAttrs(attrs, Tail(names), py311)

\* _infer_date_string of download_full_plancton.py (the same in download_full_sst.py)
_infer_date_string(attrs, filepath, py311) ==
    LET d == InferFromAttrs(attrs, RANGE_ATTRS, py311)
        g == SearchDigits(Basename(filepath), "A", 7, <<>>)
    IN IF d # NoDate THEN Returned("infer", strftime_Ymd(d))
       ELSE IF g # <<>>
            THEN LET f == FromYearDoy(ToInt(SubSeq(g, 1, 4)), ToInt(SubSeq(g, 5, 7)))
                 IN IF f = NoDate THEN Raised("infer") ELSE Returned("infer", strftime_Ymd(f))
            ELSE LET c == IF "date_created" \in DOMAIN attrs /\ Contains(attrs["date_created"], "T")
                          THEN fromisoformat(ReplaceZ(attrs["date_created"]), py311)
                          ELSE NoDate
                 IN IF c # NoDate THEN Returned("infer", strftime_Ymd(c))
                    ELSE Returned("infer", SENTINEL)

RECURSIVE FirstPresent(_, _)
\* the if / elif chain on hasattr: the first attribute that is present
FirstPresent(attrs, names) ==
    IF names = <<>> THEN "none"
    ELSE IF Head(names) \in DOMAIN attrs THEN Head(names)
    ELSE FirstPresent(attrs, Tail(names))

\* the date block of export_csv in download_plancton.py
LegacyDate(attrs, filepath, py311) ==
    LET a == FirstPresent(attrs, RANGE_ATTRS)
        g == SearchDigits(Basename(filepath), "A", 7, <<>>)
        data_str == IF a # "none" THEN attrs[a]
                    ELSE IF g # <<>> THEN SubSeq(g, 1, 4) \o <<"-">> \o SubSeq(g, 5, 7)
                    ELSE <<>>
        dashes == {i \in 1..Len(data_str) : data_str[i] = "-"}
    IN IF data_str = <<>> THEN Returned("legacy", SENTINEL)
       ELSE IF Contains(data_str, "T")
            THEN LET d == fromisoformat(ReplaceZ(data_str), py311)
                 IN Returned("legacy", IF d = NoDate THEN data_str ELSE strftime_Ymd(d))
       ELSE IF Len(data_str) = 8 /\ IsDigitStr(data_str)
            THEN LET d == strptime_Ymd(data_str)
                 IN Returned("legacy", IF d = NoDate THEN data_str ELSE strftime_Ymd(d))
       ELSE IF Cardinality(dashes) = 1
            THEN LET i == CHOOSE k \in dashes : TRUE
                     ys == SubSeq(data_str, 1, i - 1)
                     ds == SubSeq(data_str, i + 1, Len(data_str))
                     year == int(ys)
                     day == int(ds)
                     d == IF year = <<>> \/ day = <<>> THEN NoDate
                          ELSE FromYearDoy(year[1], day[1])
                 IN Returned("legacy", IF d = NoDate THEN data_str ELSE strftime_Ymd(d))
       ELSE Returned("legacy", data_str)

RECURSIVE SstFromAttrs(_, _, _)
\* for attr in ("time_coverage_start", "start_time"): try fromisoformat ... break
SstFromAttrs(attrs, names, py311) ==
    IF names = <<>> THEN NoDate
    ELSE LET a == Head(names)
             d == IF a \in DOMAIN attrs THEN fromisoformat(ReplaceZ(attrs[a]), py311) ELSE NoDate
         IN IF d # NoDate THEN d ELSE SstFromAttrs(attrs, Tail(names), py311)

\* the date block of extract_sst
SstDate(attrs, filepath, py311) ==
    LET d == SstFromAttrs(attrs, SubSeq(RANGE_ATTRS, 1, 2), py311)
        g == SearchDigits(Basename(filepath), ".", 8, <<".">>)
    IN IF d # NoDate THEN Returned("sst", strftime_Ymd(d))
       ELSE IF g # <<>>
            THEN IF strptime_Ymd(g) = NoDate THEN Raised("sst")
                 ELSE Returned("sst", strftime_Ymd(strptime_Ymd(g)))
            ELSE Returned("sst", SENTINEL_SST)

\* the values drawn for each attribute (absent is drawn apart) and the paths
DrValues(a) ==
    CASE a = "time_coverage_start" ->
            \* "", "2024-01-01T00:00:00.000Z", "Tbd"
            {<<>>,
             <<"2", "0", "2", "4", "-", "0", "1", "-", "0", "1", "T", "0", "0", ":", "0", "0", ":", "0", "0", ".", "0", "0", "0", "Z">>,
             <<"T", "b", "d">>}
      [] a = "start_time" ->
            \* "20240102", "20241345"
            {<<"2", "0", "2", "4", "0", "1", "0", "2">>,
             <<"2", "0", "2", "4", "1", "3", "4", "5">>}
      [] a = "time_coverage_end" ->
            \* "", "2024-01-03T23:59:59Z"
            {<<>>,
             <<"2", "0", "2", "4", "-", "0", "1", "-", "0", "3", "T", "2", "3", ":", "5", "9", ":", "5", "9", "Z">>}
      [] a = "end_time" ->
            \* "20240104"
            {<<"2", "0", "2", "4", "0", "1", "0", "4">>}
      [] a = "date_created" ->
            \* "2024-01-07T10:00:00Z", "2024-01-07"
            {<<"2", "0", "2", "4", "-", "0", "1", "-", "0", "7", "T", "1", "0", ":", "0", "0", ":", "0", "0", "Z">>,
             <<"2", "0", "2", "4", "-", "0", "1", "-", "0", "7">>}

DrAttrNames == {RANGE_ATTRS[i] : i \in 1..Len(RANGE_ATTRS)} \cup {"date_created"}

\* "nc/A2024005.L3m.nc", "nc/AQUA_MODIS.20240106.L3m.nc", "nc/AQUA_MODIS.20241345.L3m.nc", "nc/A0000001.nc",
\* "nc/A0999001.nc"
DrPaths ==
    {<<"n", "c", "/", "A", "2", "0", "2", "4", "0", "0", "5", ".", "L", "3", "m", ".", "n", "c">>,
     <<"n", "c", "/", "A", "Q", "U", "A", "_", "M", "O", "D", "I", "S", ".", "2", "0", "2", "4", "0", "1", "0", "6", ".", "L", "3", "m", ".", "n", "c">>,
     <<"n", "c", "/", "A", "Q", "U", "A", "_", "M", "O", "D", "I", "S", ".", "2", "0", "2", "4", "1", "3", "4", "5", ".", "L", "3", "m", ".", "n", "c">>,
     <<"n", "c", "/", "A", "0", "0", "0", "0", "0", "0", "1", ".", "n", "c">>,
     <<"n", "c", "/", "A", "0", "9", "9", "9", "0", "0", "1", ".", "n", "c">>}

DrIdle ==
    /\ dr_in = <<>>
    /\ dr_out = <<>>
    /\ dr_pc = "idle"

DrInit ==
    /\ \E present \in SUBSET DrAttrNames : \E attrs \in [present -> UNION {DrValues(a) : a \in DrAttrNames}] :
          \E path \in DrPaths : \E py311 \in BOOLEAN :
             /\ \A a \in present : attrs[a] \in DrValues(a)
             /\ dr_in = [attrs |-> attrs, filepath |-> path, py311 |-> py311]
    /\ dr_out = <<>>
    /\ dr_pc = "input"

CallInferDateString ==
    /\ UNCHANGED drOthers
    /\ dr_pc = "input"
    /\ dr_out' = _infer_date_string(dr_in.attrs, dr_in.filepath, dr_in.py311)
    /\ dr_pc' = "done"
    /\ UNCHANGED dr_in

CallLegacyDate ==
    /\ UNCHANGED drOthers
    /\ dr_pc = "input"
    /\ dr_out' = LegacyDate(dr_in.attrs, dr_in.filepath, dr_in.py311)
    /\ dr_pc' = "done"
    /\ UNCHANGED dr_in

CallSstDate ==
    /\ UNCHANGED drOthers
    /\ dr_pc = "input"
    /\ dr_out' = SstDate(dr_in.attrs, dr_in.filepath, dr_in.py311)
    /\ dr_pc' = "done"
    /\ UNCHANGED dr_in

(***************************************************************************)
(* The names of the CSV artifacts: save_period_csv and save_daily_csv of   *)
(* the sharks script,                                                      *)
(* search_and_download_month of the plankton script, export_daily_csv of   *)
(* the SWOT script, over runs whose resolution constant differs.           *)
(***************************************************************************)
MaxRuns == 3

\* the values given to H3_RESOLUTION / H3_RES from run to run
ArResolutions == {4, 5, 10}

\* f"sharks_h3r{H3_RESOLUTION}_{start_date.isoformat()}_{end_date.isoformat()}.csv"
SharksCsvName(res, start, end) ==
    <<"sharks_h3r">> \o Decimal(res) \o <<"_">> \o isoformat(start)
        \o <<"_">> \o isoformat(end) \o <<".csv">>

\* f"sharks_h3r{H3_RESOLUTION}_{day.isoformat()}.csv"
SharksDailyCsvName(res, day) ==
    <<"sharks_h3r">> \o Decimal(res) \o <<"_">> \o isoformat(day) \o <<".csv">>

\* f"{fpath.stem}.h3r{H3_RESOLUTION}.csv"
PlanktonCsvName(stem, res) == stem \o <<".h3r">> \o Decimal(res) \o <<".csv">>

\* f"swot_shark_activity_{date_str}.csv": H3_RES is not in it
SwotCsvName(date_str) == <<"swot_shark_activity_">> \o date_str \o <<".csv">>

\* the periods, file stems and days the runs work on
ArPeriods == {<<<<2024, 1, 1>>, <<2024, 1, 31>>>>, <<<<2024, 2, 1>>, <<2024, 2, 29>>>>}
ArStems == {<<"A2024005.L3m">>, <<"A2024006.L3m">>}
ArDays == {<<"20240105">>, <<"20240106">>}
ArSharkDays == {<<2024, 1, 5>>, <<2024, 1, 6>>}

\* what a sink did with out_path in a run at resolution res
SinkOp(op, name, res) ==
    [op |-> op, name |-> name, had |-> IF name \in DOMAIN ar_fs THEN ar_fs[name] ELSE res,
     res |-> res]

\* df.to_csv(out_path): the file now holds rows computed at resolution res
Written(name, res) == [n \in DOMAIN ar_fs \cup {name} |-> IF n = name THEN res ELSE ar_fs[n]]

ArIdle ==
    /\ ar_src = "none"
    /\ ar_res = 0
    /\ ar_fs = <<>>
    /\ ar_last = <<>>
    /\ ar_runs = 0

\* a script is started with its resolution constant set
ArStartRun ==
    /\ UNCHANGED arOthers
    /\ ar_runs < MaxRuns
    /\ \E src \in {"sharks", "plankton", "swot"} : \E res \in ArResolutions :
          /\ ar_src' = src
          /\ ar_res' = res
    /\ ar_last' = <<>>
    /\ ar_runs' = ar_runs + 1
    /\ UNCHANGED ar_fs

\* save_period_csv
ArSavePeriodCsv ==
    /\ UNCHANGED arOthers
    /\ ar_src = "sharks"
    /\ \E w \in ArPeriods :
          LET out_path == SharksCsvName(ar_res, w[1], w[2])
          IN IF SKIP_IF_EXISTS /\ out_path \in DOMAIN ar_fs
             THEN /\ ar_last' = SinkOp("skipped", out_path, ar_res)
                  /\ UNCHANGED ar_fs
             ELSE /\ ar_last' = SinkOp(IF out_path \in DOMAIN ar_fs THEN "overwritten" ELSE "created",
                                       out_path, ar_res)
                  /\ ar_fs' = Written(out_path, ar_res)
    /\ UNCHANGED <<ar_src, ar_res, ar_runs>>

\* save_daily_csv
ArSaveDailyCsv ==
    /\ UNCHANGED arOthers
    /\ ar_src = "sharks"
    /\ \E day \in ArSharkDays :
          LET out_path == SharksDailyCsvName(ar_res, day)
          IN IF SKIP_IF_EXISTS /\ out_path \in DOMAIN ar_fs
             THEN /\ ar_last' = SinkOp("skipped", out_path, ar_res)
                  /\ UNCHANGED ar_fs
             ELSE /\ ar_last' = SinkOp(IF out_path \in DOMAIN ar_fs THEN "overwritten" ELSE "created",
                                       out_path, ar_res)
                  /\ ar_fs' = Written(out_path, ar_res)
    /\ UNCHANGED <<ar_src, ar_res, ar_runs>>

\* search_and_download_month: csv_path.exists() -> continue, else export_csv
ArPlanktonCsv ==
    /\ UNCHANGED arOthers
    /\ ar_src = "plankton"
    /\ \E stem \in ArStems :
          LET csv_path == PlanktonCsvName(stem, ar_res)
          IN IF csv_path \in DOMAIN ar_fs
             THEN /\ ar_last' = SinkOp("skipped", csv_path, ar_res)
                  /\ UNCHANGED ar_fs
             ELSE /\ ar_last' = SinkOp("created", csv_path, ar_res)
                  /\ ar_fs' = Written(csv_path, ar_res)
    /\ UNCHANGED <<ar_src, ar_res, ar_runs>>

\* export_daily_csv: no test of existence, df.to_csv(out_csv)
ArExportDailyCsv ==
    /\ UNCHANGED arOthers
    /\ ar_src = "swot"
    /\ \E day \in ArDays :
          LET out_csv == SwotCsvName(day)
          IN /\ ar_last' = SinkOp(IF out_csv \in DOMAIN ar_fs THEN "overwritten" ELSE "created",
                                  out_csv, ar_res)
             /\ ar_fs' = Written(out_csv, ar_res)
    /\ UNCHANGED <<ar_src, ar_res, ar_runs>>

(***************************************************************************)
(* The catalog drivers from the import of h3 on: the module-level try /    *)
(* except, main, search_and_download_month and the loop over the files.    *)
(***************************************************************************)
MaxWindows == 2
MaxGranules == 2

CdScripts == {"plankton", "swot", "sharks"}

CdIdle ==
    /\ cd_script = "none"
    /\ cd_h3 = TRUE
    /\ cd_pc = "idle"
    /\ cd_results = <<>>
    /\ cd_i = 0
    /\ cd_calls = <<>>
    /\ cd_left = 0
    /\ cd_got = [nc |-> 0, csv |-> 0]
    /\ cd_total = [nc |-> 0, csv |-> 0]
    /\ cd_warned = 0
    /\ cd_dir = FALSE
    /\ cd_made = FALSE

CdInit ==
    /\ cd_script \in CdScripts
    /\ cd_h3 \in BOOLEAN
    /\ cd_pc = "import"
    /\ cd_results \in [1..MaxWindows -> 0..MaxGranules]
    /\ cd_i = 0
    /\ cd_calls = <<>>
    /\ cd_left = 0
    /\ cd_got = [nc |-> 0, csv |-> 0]
    /\ cd_total = [nc |-> 0, csv |-> 0]
    /\ cd_warned = 0
    /\ cd_dir \in BOOLEAN
    /\ cd_made = FALSE

cdFixed == <<cd_script, cd_h3, cd_results>>

\* what the module-level `except` does when `import h3` fails: the sharks and
\* SWOT scripts raise ImportError, the plankton script sets h3 = None and goes on
ImportFailureAborts(script) == script \in {"sharks", "swot"}

\* the module is loaded: try: import h3 ... except: ...
CdImport ==
    /\ UNCHANGED cdOthers
    /\ cd_pc = "import"
    /\ cd_pc' = IF ~cd_h3 /\ ImportFailureAborts(cd_script) THEN "aborted" ELSE "main"
    /\ UNCHANGED <<cdFixed, cd_i, cd_calls, cd_left, cd_got, cd_total, cd_warned, cd_dir, cd_made>>

\* authenticate() of a catalog driver: what reaches main when the
\* credentials are missing, or earthaccess.login returns a truthy auth, a
\* falsy one, or raises. The plankton script calls login in a try and returns
\* False from the except; the SWOT script calls it outside any try.
CdAuthOutcomes == {"ok", "no_credentials", "falsy", "raises"}

CdAuthenticate(script, outcome) ==
    IF outcome = "ok" THEN "True"
    ELSE IF outcome = "raises" /\ script = "swot" THEN "raises"
    ELSE "False"

\* what the two calls of the sharks main may do: fetch_all_species_period
\* returns an empty frame or one with rows, or is left by an exception
\* (resp.json() on a body that is not JSON); save_period_csv returns or is left
\* by an exception of df.to_csv
CdSharksOutcomes == {"empty", "saved", "fetch_raises", "save_raises"}

\* main: `if not authenticate(): return` in the catalog drivers, then the loop
\* over the windows; the sharks main calls fetch_all_species_period and, when
\* the frame is not empty, save_period_csv, neither inside a try
CdMain ==
    /\ UNCHANGED cdOthers
    /\ cd_pc = "main"
    /\ IF cd_script = "sharks"
       THEN /\ \E outcome \in CdSharksOutcomes :
                  /\ cd_calls' = IF outcome \in {"empty", "fetch_raises"}
                                 THEN <<"fetch">> ELSE <<"fetch", "save">>
                  /\ cd_pc' = IF outcome \in {"empty", "saved"} THEN "done" ELSE "aborted"
            /\ UNCHANGED cd_i
       ELSE \E outcome \in CdAuthOutcomes :
               LET a == CdAuthenticate(cd_script, outcome)
               IN /\ cd_pc' = IF a = "True" THEN "window"
                              ELSE IF a = "False" THEN "done" ELSE "aborted"
                  /\ cd_i' = 1
                  /\ UNCHANGED cd_calls
    /\ UNCHANGED <<cdFixed, cd_left, cd_got, cd_total, cd_warned, cd_dir, cd_made>>

\* whether search_and_download_month returns right after an empty search
ReturnsOnNoResults(script) == script = "plankton"

\* all_results[::DOWNLOAD_DOWNSAMPLE] in the SWOT script: how many are left
Selected(script, n) ==
    IF script = "swot" /\ DOWNLOAD_DOWNSAMPLE > 1
    THEN (n + DOWNLOAD_DOWNSAMPLE - 1) \div DOWNLOAD_DOWNSAMPLE
    ELSE n

\* the head of main's loop and search_and_download_month up to the return of
\* earthaccess.download; outcome says which of the two remote calls raises
CdSearchAndDownload ==
    /\ UNCHANGED cdOthers
    /\ cd_pc = "window"
    /\ IF cd_i > MaxWindows
       THEN /\ cd_pc' = "done"
            /\ UNCHANGED <<cd_i, cd_calls, cd_left, cd_got, cd_total, cd_warned, cd_dir, cd_made>>
       ELSE \E outcome \in {"ok", "search_raises", "download_raises"} :
               LET n == cd_results[cd_i]
               IN IF outcome = "search_raises"
                  THEN /\ cd_calls' = <<"search">>
                       /\ cd_warned' = cd_warned + 1
                       /\ cd_i' = cd_i + 1
                       /\ cd_got' = [nc |-> 0, csv |-> 0]
                       /\ cd_made' = FALSE
                       /\ UNCHANGED <<cd_pc, cd_left, cd_total, cd_dir>>
                  ELSE IF n = 0 /\ ReturnsOnNoResults(cd_script)
                  THEN /\ cd_calls' = <<"search">>
                       /\ cd_i' = cd_i + 1
                       /\ cd_got' = [nc |-> 0, csv |-> 0]
                       /\ cd_made' = FALSE
                       /\ UNCHANGED <<cd_pc, cd_left, cd_total, cd_warned, cd_dir>>
                  ELSE IF outcome = "download_raises"
                  THEN /\ cd_calls' = <<"search", "mkdir", "download">>
                       /\ cd_warned' = cd_warned + 1
                       /\ cd_i' = cd_i + 1
                       /\ cd_got' = [nc |-> 0, csv |-> 0]
                       /\ cd_made' = ~cd_dir
                       /\ cd_dir' = TRUE
                       /\ UNCHANGED <<cd_pc, cd_left, cd_total>>
                  ELSE /\ cd_calls' = <<"search", "mkdir", "download">>
                       /\ cd_left' = Selected(cd_script, n)
                       /\ cd_got' = [nc |-> Selected(cd_script, n), csv |-> 0]
                       /\ cd_made' = ~cd_dir
                       /\ cd_dir' = TRUE
                       /\ cd_pc' = "files"
                       /\ UNCHANGED <<cd_i, cd_total, cd_warned>>
    /\ UNCHANGED cdFixed

\* one turn of the loop over the downloaded files, and what follows the last
\* file. Plankton: csv_path.exists() -> continue, else export_csv in a try (it
\* raises ImportError when h3 is None); after the last file the window's
\* counts are added to main's counters. SWOT: process_swot_file returns None
\* after a warning, or the rows of a day, which open a daily group or join
\* one (cd_got.csv counts the groups); after the last file export_daily_csv
\* is called for one group after the other, outside any try: total_csv counts
\* the exports that returned, and an export that raises ends the run.
CdFile ==
    /\ UNCHANGED cdOthers
    /\ cd_pc = "files"
    /\ IF cd_left = 0
       THEN /\ IF cd_script = "plankton"
               THEN /\ cd_total' = [nc |-> cd_total.nc + cd_got.nc, csv |-> cd_total.csv + cd_got.csv]
                    /\ cd_i' = cd_i + 1
                    /\ cd_pc' = "window"
               ELSE \E raising \in 0..cd_got.csv :
                       /\ cd_total' = [cd_total EXCEPT !.csv = @ + (IF raising = 0 THEN cd_got.csv
                                                                    ELSE raising - 1)]
                       /\ cd_i' = IF raising = 0 THEN cd_i + 1 ELSE cd_i
                       /\ cd_pc' = IF raising = 0 THEN "window" ELSE "aborted"
            /\ UNCHANGED <<cd_left, cd_got, cd_warned>>
       ELSE /\ cd_left' = cd_left - 1
            /\ IF cd_script = "plankton"
               THEN \E outcome \in {"exists", "ok", "raises"} :
                       /\ (outcome = "ok") => cd_h3
                       /\ cd_got' = IF outcome = "ok" THEN [cd_got EXCEPT !.csv = @ + 1] ELSE cd_got
                       /\ cd_warned' = IF outcome = "raises" THEN cd_warned + 1 ELSE cd_warned
               ELSE \E outcome \in {"none", "new_day", "same_day"} :
                       /\ (outcome = "same_day") => (cd_got.csv > 0)
                       /\ cd_got' = IF outcome = "new_day" THEN [cd_got EXCEPT !.csv = @ + 1] ELSE cd_got
                       /\ cd_warned' = IF outcome = "none" THEN cd_warned + 1 ELSE cd_warned
            /\ UNCHANGED <<cd_total, cd_i, cd_pc>>
    /\ UNCHANGED <<cdFixed, cd_calls, cd_dir, cd_made>>

(***************************************************************************)
(* earthaccess_manager.py: the EarthAccessManager singleton                *)
(***************************************************************************)
\* calls made on the singleton in one behaviour
MaxCalls == 5
\* largest max_days_back passed to search_recent_data
MaxDaysBack == 2

\* what earthaccess.login may do: return a truthy auth, a falsy one, or raise
LoginOutcomes == {"ok", "falsy", "raises"}
\* what earthaccess.search_data may do: return a list with a granule, return
\* an empty list, raise, or raise with a message that speaks of authentication
SearchOutcomes == {"ok", "empty", "raises", "raises_auth"}

\* len(results) of what earthaccess.search_data returned
ResultsOf(search) == IF search = "ok" THEN 1 ELSE 0

\* the prints of the manager, by what they report. authenticate(): line 55
\* inside `if self._auth_failed`, line 59 at the start of the try block, line 73
\* after `self._authenticated = True`, line 76 before `self._auth_failed = True`,
\* line 80 at the start of the handler. search_data(): the prints before the
\* remote call (line 200 and, for the arguments given, lines 202 to 212), line
\* 215 after it, line 220 in the handler. search_recent_data(): line 266 after
\* authenticate() returned False, lines 288 and 290 inside the try block after
\* search_data returned, lines 293 and 296 in the handler. download_data(): line
\* 318 before the try block, line 323 before the remote call, line 326 after it
\* (line 331, in the handler, comes before `raise`: an exception leaves the call
\* whether or not it raises). A print raises when sys.stdout does not take the
\* text (UnicodeEncodeError, OSError on a closed stream); the message of such
\* an exception does not speak of authentication.
PrintSites ==
    {"refused", "start", "success", "falsy", "handler",
     "search_start", "search_found", "search_handler",
     "recent_refused", "recent_found", "recent_none", "recent_error", "recent_stop",
     "download_none", "download_start", "download_done"}

\* prints that raise in one call, when not all of them do
MaxFailing == 2

\* the sets of prints that raise in one call: a few of them, or all (a closed
\* stream); what a call does under a larger set it also does under one of these
Failing ==
    {f : f \in {g \in SUBSET PrintSites : Cardinality(g) <= MaxFailing \/ g = PrintSites}}

\* the flags of the instance
Flags(a, f) == [authenticated |-> a, auth_failed |-> f]

\* a remote call, with the value _authenticated had when it was issued
Remote(ev, self) == [ev |-> ev, auth |-> self.authenticated]

Ret(kind, n) == [kind |-> kind, n |-> n]

\* authenticate(): the new flags, what the call gave ("True", "False", or
\* "raises" when an exception leaves it) and the remote calls made; `failing`
\* is the set of prints that raise. An exception inside the try block,
\* also one raised by the print after `self._authenticated = True`, is
\* caught by `except Exception`, whose handler prints, sets _auth_failed and
\* returns False; an exception of the handler's own print leaves the call.
authenticate(self, login, failing) ==
    IF self.authenticated
    THEN [self |-> self, ret |-> "True", log |-> <<>>]
    ELSE IF self.auth_failed
    THEN [self |-> self, ret |-> IF "refused" \in failing THEN "raises" ELSE "False",
          log |-> <<>>]
    ELSE LET called == <<Remote("login", self)>>
             block ==
                 IF "start" \in failing
                 THEN [self |-> self, raised |-> TRUE, ret |-> "False", log |-> <<>>]
                 ELSE IF login = "raises"
                 THEN [self |-> self, raised |-> TRUE, ret |-> "False", log |-> called]
                 ELSE IF login = "ok"
                 THEN [self |-> Flags(TRUE, self.auth_failed),
                       raised |-> "success" \in failing, ret |-> "True", log |-> called]
                 ELSE IF "falsy" \in failing
                 THEN [self |-> self, raised |-> TRUE, ret |-> "False", log |-> called]
                 ELSE [self |-> Flags(self.authenticated, TRUE),
                       raised |-> FALSE, ret |-> "False", log |-> called]
         IN IF ~block.raised
            THEN [self |-> block.self, ret |-> block.ret, log |-> block.log]
            ELSE IF "handler" \in failing
            THEN [self |-> block.self, ret |-> "raises", log |-> block.log]
            ELSE [self |-> Flags(block.self.authenticated, TRUE), ret |-> "False",
                  log |-> block.log]

\* search_data(...): `valid` is whether at most one of bounding_box, polygon and
\* point is given; ret is "results" (n of them) or "raises". The authentication
\* comes before the try block: `raise Exception(...)`, with a message that
\* speaks of authentication, when authenticate() returned False, and an
\* exception that left authenticate() leaves search_data as well. Inside the
\* try block come the ValueError for the arguments, the prints of the
\* parameters, the remote call and the print of the count; the handler prints
\* and raises the exception again, and when its own print raises that
\* exception is the one that leaves (msg_auth is whether the message of the
\* exception that leaves speaks of authentication)
search_data(self, login, failing, valid, search) ==
    LET a == IF ~self.authenticated
             THEN authenticate(self, login, failing)
             ELSE [self |-> self, ret |-> "True", log |-> <<>>]
        called == a.log \o <<Remote("search", a.self)>>
        block ==
            IF ~valid \/ "search_start" \in failing
            THEN [raised |-> TRUE, msg_auth |-> FALSE, log |-> a.log]
            ELSE IF search \in {"raises", "raises_auth"}
            THEN [raised |-> TRUE, msg_auth |-> (search = "raises_auth"), log |-> called]
            ELSE [raised |-> "search_found" \in failing, msg_auth |-> FALSE, log |-> called]
    IN IF a.ret # "True"
       THEN [self |-> a.self, ret |-> "raises", n |-> 0, msg_auth |-> (a.ret = "False"),
             log |-> a.log]
       ELSE IF block.raised
       THEN [self |-> a.self, ret |-> "raises", n |-> 0,
             msg_auth |-> (block.msg_auth /\ "search_handler" \notin failing),
             log |-> block.log]
       ELSE [self |-> a.self, ret |-> "results", n |-> ResultsOf(search),
             msg_auth |-> FALSE, log |-> block.log]

RECURSIVE RecentLoop(_, _, _, _, _, _)
\* for delta in range(1, max_days_back + 1): the searches still to make are
\* `days`; found is len(all_results): `if results: all_results.extend(results)`
\* adds the results of a day whose list is not empty, and the print of the
\* day follows inside the try block. The handler catches the exception of
\* search_data or of that print: it prints, ends the loop (after one more
\* print) when the message speaks of authentication, and goes on with the next
\* day otherwise; an exception of a print of the handler leaves the call, and
\* nothing is returned
RecentLoop(self, login, failing, valid, days, acc) ==
    IF days = <<>> THEN acc
    ELSE LET r == search_data(self, login, failing, valid, Head(days))
             found == IF r.ret = "results" /\ r.n > 0 THEN acc.found + r.n ELSE acc.found
             caught == \/ r.ret # "results"
                       \/ (IF r.n > 0 THEN "recent_found" ELSE "recent_none") \in failing
             msg_auth == r.ret # "results" /\ r.msg_auth
             now == [self |-> r.self, raised |-> FALSE, found |-> found,
                     log |-> acc.log \o r.log]
             left == [now EXCEPT !.raised = TRUE, !.found = 0]
         IN IF ~caught
            THEN RecentLoop(r.self, login, failing, valid, Tail(days), now)
            ELSE IF "recent_error" \in failing
            THEN left
            ELSE IF msg_auth
            THEN IF "recent_stop" \in failing THEN left ELSE now
            ELSE RecentLoop(r.self, login, failing, valid, Tail(days), now)

\* search_recent_data(...): one authentication, then one search per day; when
\* authenticate() returned False it prints and returns [], and an exception
\* that left authenticate(), or that print, leaves search_recent_data
search_recent_data(self, login, failing, valid, days) ==
    LET a == IF ~self.authenticated
             THEN authenticate(self, login, failing)
             ELSE [self |-> self, ret |-> "True", log |-> <<>>]
    IN IF a.ret # "True"
       THEN [self |-> a.self,
             raised |-> (a.ret = "raises" \/ "recent_refused" \in failing),
             found |-> 0, log |-> a.log]
       ELSE RecentLoop(a.self, login, failing, valid, days,
                       [self |-> a.self, raised |-> FALSE, found |-> 0, log |-> a.log])

\* what os.makedirs and earthaccess.download may do in download_data
DownloadOutcomes == {"ok", "makedirs_raises", "download_raises"}
\* len(results) of the lists passed to download_data
EaResultCounts == {0, 1}

\* download_data(results, local_path) on n results: nothing is asked of the
\* flags and no login is made; an exception inside the try block, also one of
\* its prints, is printed and raised again, and the print for an empty list
\* comes before the try block
download_data(self, n, outcome, failing) ==
    IF n = 0
    THEN [self |-> self,
          ret |-> IF "download_none" \in failing THEN Ret("raises", 0) ELSE Ret("list", 0),
          log |-> <<>>]
    ELSE IF outcome = "makedirs_raises" \/ "download_start" \in failing
    THEN [self |-> self, ret |-> Ret("raises", 0), log |-> <<>>]
    ELSE [self |-> self,
          ret |-> IF outcome = "ok" /\ "download_done" \notin failing
                  THEN Ret("list", n) ELSE Ret("raises", 0),
          log |-> <<Remote("download", self)>>]

\* reset_authentication()
reset_authentication(self) == Flags(FALSE, FALSE)

\* the class attributes before any call: earth_manager = EarthAccessManager()
EaIdle ==
    /\ ea_authenticated = FALSE
    /\ ea_auth_failed = FALSE
    /\ ea_op = "none"
    /\ ea_ret = Ret("none", 0)
    /\ ea_log = <<>>
    /\ ea_before = Flags(FALSE, FALSE)
    /\ ea_calls = 0
    /\ ea_since = "fresh"

EaSelf == Flags(ea_authenticated, ea_auth_failed)

\* a call starts: the history of the call before it is replaced
EaCall(op) ==
    /\ ea_calls < MaxCalls
    /\ ea_calls' = ea_calls + 1
    /\ ea_op' = op
    /\ ea_before' = EaSelf

CallAuthenticate ==
    /\ EaCall("authenticate")
    /\ \E login \in LoginOutcomes, failing \in Failing :
          LET r == authenticate(EaSelf, login, failing)
          IN /\ ea_authenticated' = r.self.authenticated
             /\ ea_auth_failed' = r.self.auth_failed
             /\ ea_ret' = Ret(r.ret, 0)
             /\ ea_log' = r.log
             /\ ea_since' = IF r.ret = "True" THEN "ok"
                            ELSE IF r.ret = "False" THEN "failed"
                            ELSE ea_since
    /\ UNCHANGED eaOthers

CallSearchData ==
    /\ EaCall("search_data")
    /\ \E login \in LoginOutcomes, failing \in Failing,
          valid \in BOOLEAN, search \in SearchOutcomes :
          LET r == search_data(EaSelf, login, failing, valid, search)
          IN /\ ea_authenticated' = r.self.authenticated
             /\ ea_auth_failed' = r.self.auth_failed
             /\ ea_ret' = Ret(r.ret, r.n)
             /\ ea_log' = r.log
    /\ UNCHANGED ea_since
    /\ UNCHANGED eaOthers

\* what earthaccess.search_data does on the days of one search_recent_data
RecentDays == UNION {[1..n -> SearchOutcomes] : n \in 0..MaxDaysBack}

\* search_recent_data on every input drawn: the flags of the instance before
\* the call, and what the call gives
RecentCalls ==
    {[before |-> self, call |-> search_recent_data(self, login, failing, valid, days)] :
        self \in [authenticated : BOOLEAN, auth_failed : BOOLEAN],
        login \in LoginOutcomes, failing \in Failing, valid \in BOOLEAN,
        days \in RecentDays}

CallSearchRecentData ==
    /\ EaCall("search_recent_data")
    /\ \E c \in RecentCalls :
          /\ c.before = EaSelf
          /\ ea_authenticated' = c.call.self.authenticated
          /\ ea_auth_failed' = c.call.self.auth_failed
          /\ ea_ret' = IF c.call.raised THEN Ret("raises", 0) ELSE Ret("list", c.call.found)
          /\ ea_log' = c.call.log
    /\ UNCHANGED ea_since
    /\ UNCHANGED eaOthers

CallDownloadData ==
    /\ EaCall("download_data")
    /\ \E n \in EaResultCounts, outcome \in DownloadOutcomes, failing \in Failing :
          LET r == download_data(EaSelf, n, outcome, failing)
          IN /\ ea_authenticated' = r.self.authenticated
             /\ ea_auth_failed' = r.self.auth_failed
             /\ ea_ret' = r.ret
             /\ ea_log' = r.log
    /\ UNCHANGED ea_since
    /\ UNCHANGED eaOthers

CallResetAuthentication ==
    /\ EaCall("reset_authentication")
    /\ LET self == reset_authentication(EaSelf)
       IN /\ ea_authenticated' = self.authenticated
          /\ ea_auth_failed' = self.auth_failed
    /\ ea_ret' = Ret("none", 0)
    /\ ea_log' = <<>>
    /\ ea_since' = "fresh"
    /\ UNCHANGED eaOthers

(***************************************************************************)
(* Inputs of the window partitioner                                        *)
(***************************************************************************)
\* ordinal of the first date drawn (738869 is 2023-12-15)
FirstOrdinal == 738869
\* number of days after the first date that are drawn
SpanDays == 100

Dates == {FromOrdinal(FirstOrdinal + i) : i \in 0..SpanDays}

CallMonthWindows ==
    /\ mw_pc = "input"
    /\ mw_impl' = "plancton"
    /\ mw_windows' = month_windows(mw_start, mw_end)
    /\ mw_pc' = "done"
    /\ UNCHANGED <<mw_start, mw_end, mw_desc>>
    /\ UNCHANGED mwOthers

CallMonthWindowsSwot ==
    /\ mw_pc = "input"
    /\ mw_impl' = "swot"
    /\ mw_windows' = month_windows_swot(mw_start, mw_end)
    /\ mw_pc' = "done"
    /\ UNCHANGED <<mw_start, mw_end, mw_desc>>
    /\ UNCHANGED mwOthers

\* reversed(list(month_windows(start, end))) on the same arguments, materialised
CallMonthWindowsDesc ==
    /\ mw_pc = "done"
    /\ mw_impl = "plancton"
    /\ mw_desc' = month_windows_desc(mw_start, mw_end)
    /\ mw_pc' = "desc"
    /\ UNCHANGED <<mw_start, mw_end, mw_impl, mw_windows>>
    /\ UNCHANGED mwOthers

CallMonthWindowsDescSwot ==
    /\ mw_pc = "done"
    /\ mw_impl = "swot"
    /\ mw_desc' = month_windows_desc_swot(mw_start, mw_end)
    /\ mw_pc' = "desc"
    /\ UNCHANGED <<mw_start, mw_end, mw_impl, mw_windows>>
    /\ UNCHANGED mwOthers

(***************************************************************************)
(* Specifications                                                          *)
(***************************************************************************)
InitWin ==
    /\ mw_start \in Dates
    /\ mw_end \in {d \in Dates : DateLE(mw_start, d)}
    /\ mw_impl = "none"
    /\ mw_windows = <<>>
    /\ mw_desc = <<>>
    /\ mw_pc = "input"
    /\ RqIdle
    /\ ShIdle
    /\ SwIdle
    /\ AgIdle
    /\ ExIdle
    /\ DrIdle
    /\ ArIdle /\ CdIdle /\ EaIdle

NextWin ==
    \/ CallMonthWindows
    \/ CallMonthWindowsSwot
    \/ CallMonthWindowsDesc
    \/ CallMonthWindowsDescSwot

SpecWin == InitWin /\ [][NextWin]_vars

InitSharks == ShInit /\ RqIdle /\ MwIdle /\ SwIdle /\ AgIdle /\ ExIdle /\ DrIdle /\ ArIdle /\ CdIdle /\ EaIdle

NextSharks ==
    \/ ShMain
    \/ ShSpecies
    \/ ShPageRequest
    \/ ReqSend
    \/ ReqAttempt
    \/ ReqBackoff
    \/ ShDecodeError
    \/ ShDecode
    \/ ShPageSleep
    \/ ShSave
    \/ ShWriteEnd
    \/ ShWriteError
    \/ ShInterrupt
    \/ ShStartRun

SpecSharks == InitSharks /\ [][NextSharks]_vars

InitSwot == SwInit /\ RqIdle /\ MwIdle /\ ShIdle /\ AgIdle /\ ExIdle /\ DrIdle /\ ArIdle /\ CdIdle /\ EaIdle

NextSwot ==
    \/ SwMain
    \/ SwWindow
    \/ SwSearchAndDownload
    \/ SwSearchError
    \/ SwExport
    \/ SwWriteEnd
    \/ SwWriteError
    \/ SwInterrupt
    \/ SwStartRun

SpecSwot == InitSwot /\ [][NextSwot]_vars

InitAgg == AgInit /\ RqIdle /\ MwIdle /\ ShIdle /\ SwIdle /\ ExIdle /\ DrIdle /\ ArIdle /\ CdIdle /\ EaIdle

NextAgg ==
    \/ AgCount
    \/ AgFilter

SpecAgg == InitAgg /\ [][NextAgg]_vars

\* calls on the EarthAccessManager singleton, in any order
InitManager ==
    /\ EaIdle /\ RqIdle /\ MwIdle /\ ShIdle /\ SwIdle /\ AgIdle /\ ExIdle /\ DrIdle /\ ArIdle
    /\ CdIdle

NextManager ==
    \/ CallAuthenticate
    \/ CallSearchData
    \/ CallSearchRecentData
    \/ CallDownloadData
    \/ CallResetAuthentication

SpecManager == InitManager /\ [][NextManager]_vars

\* the record loops on records that are usable or not
InitCount == AgInitValidity /\ RqIdle /\ MwIdle /\ ShIdle /\ SwIdle /\ ExIdle /\ DrIdle /\ ArIdle /\ CdIdle /\ EaIdle

NextCount ==
    \/ AgCount
    \/ AgFilter

SpecCount == InitCount /\ [][NextCount]_vars

InitExport == ExInit /\ RqIdle /\ MwIdle /\ ShIdle /\ SwIdle /\ AgIdle /\ DrIdle /\ ArIdle /\ CdIdle /\ EaIdle

NextExport ==
    \/ ExportCsv
    \/ ExtractSst
    \/ ProcessSwotFile
    \/ ExRegroup

SpecExport == InitExport /\ [][NextExport]_vars

InitDates ==
    /\ DrInit /\ RqIdle /\ MwIdle /\ ShIdle /\ SwIdle /\ AgIdle /\ ExIdle /\ ArIdle /\ CdIdle /\ EaIdle

NextDates ==
    \/ CallInferDateString
    \/ CallLegacyDate
    \/ CallSstDate

SpecDates == InitDates /\ [][NextDates]_vars

InitNames ==
    /\ ArIdle /\ CdIdle /\ EaIdle /\ RqIdle /\ MwIdle /\ ShIdle /\ SwIdle /\ AgIdle /\ ExIdle /\ DrIdle

NextNames ==
    \/ ArStartRun
    \/ ArSavePeriodCsv
    \/ ArSaveDailyCsv
    \/ ArPlanktonCsv
    \/ ArExportDailyCsv

SpecNames == InitNames /\ [][NextNames]_vars

InitDrivers ==
    /\ CdInit /\ RqIdle /\ MwIdle /\ ShIdle /\ SwIdle /\ AgIdle /\ ExIdle /\ DrIdle /\ ArIdle
    /\ EaIdle

NextDrivers ==
    \/ CdImport
    \/ CdMain
    \/ CdSearchAndDownload
    \/ CdFile

SpecDrivers == InitDrivers /\ [][NextDrivers]_vars

\* both aggregations: the counts of the occurrence records and the rows per cell
\* of a grid
InitAggregation == InitAgg \/ InitExport

NextAggregation ==
    \/ AgCount
    \/ AgFilter
    \/ ExportCsv
    \/ ExtractSst
    \/ ProcessSwotFile
    \/ ExRegroup

SpecAggregation == InitAggregation /\ [][NextAggregation]_vars

\* the sleeps of a call so far are RETRY_SLEEP x 1, RETRY_SLEEP x 2, ..., one
\* after each failed attempt and none after the attempt that succeeded
SleepsAreLinear ==
    /\ \A k \in 1..Len(rq_slept) : rq_slept[k] = RETRY_SLEEP_MS * k
    /\ Len(rq_slept) <= rq_failed
    /\ (rq_result = "response") => (Len(rq_slept) = rq_requests - 1)

\* C22: after the k-th failed attempt _req_get sleeps RETRY_SLEEP x k and then
\* makes attempt k+1: every backoff sleep is followed by another attempt, and
\* there is no sleep after an attempt that succeeded.
C22_EverySleepIsFollowedByAnAttempt ==
    /\ SleepsAreLinear
    /\ (rq_result # "pending") => (Len(rq_slept) < rq_requests)

\* the fetch for the current species has just returned
FetchReturned == sh_pc = "species" /\ sh_stop # "none"

\* C7: when every request for a unit fails on all MAX_RETRIES attempts, the fetch
\* outcome is Failed and differs from the outcome of an empty result, the unit is
\* recorded as FAILED, no artifact is written for it and the pipeline does not raise.
C7_AllFailedIsRecordedFailed ==
    /\ (FetchReturned /\ sh_stop = "failed" /\ Len(sh_pages) = 1) => (sh_ret # EmptyCounts)
    /\ (sh_pc = "done" /\ sh_net /\ ~sh_got200) =>
           (sh_report = "failed" /\ sh_wrote = 0)
    /\ (sh_net /\ ~sh_got200) => (sh_pc # "aborted")

CeilDiv(a, b) == (a + b - 1) \div b

\* offsets requested are 0, PAGE_SIZE, 2*PAGE_SIZE, ... in this order, each once
OffsetsInOrder == \A i \in 1..Len(sh_pages) : sh_pages[i] = (i - 1) * PAGE_SIZE

\* the loop goes on after a page only if that page had records and the offset is
\* still below the total, and it ends only at a page without records or at one
\* after which the offset has reached the total
StopsAtFirstEndPage ==
    /\ (sh_pc = "page_sleep") =>
           (sh_lastn > 0 /\ (sh_total_est = <<>> \/ sh_offset < sh_total_est[1]))
    /\ FetchReturned =>
           \/ sh_stop = "empty" /\ sh_lastn = 0
           \/ /\ sh_stop = "total"
              /\ sh_lastn > 0
              /\ sh_total_est # <<>>
              /\ sh_offset >= sh_total_est[1]
              /\ sh_offset = Len(sh_pages) * PAGE_SIZE

\* C8: the offsets requested are 0, PAGE_SIZE, 2*PAGE_SIZE, ... in increasing
\* order, each once; the loop stops exactly at the first page without records or
\* after which offset >= total; with a constant total T it ends after at most
\* ceil(T / PAGE_SIZE) page requests.
C8_AtMostCeilPages ==
    /\ OffsetsInOrder
    /\ StopsAtFirstEndPage
    /\ (FetchReturned /\ sh_constT) =>
           (Len(sh_pages) <= CeilDiv(sh_total_est[1], PAGE_SIZE))

(***************************************************************************)
(* Claims about the aggregation                                            *)
(***************************************************************************)
\* the statistics the claim names of the rows of a grouping
Statistics(rows) ==
    [c \in DOMAIN rows |->
        [n |-> rows[c].n, mean |-> rows[c].mean, min |-> rows[c].min, max |-> rows[c].max]]

\* C14: aggregation is order-independent: every arrangement of the same records,
\* however they are spread over the pages, gives the same groups with the same
\* counts, and every arrangement of the same grid points gives the same cells
\* with the same count, mean, min and max.
C14_OrderIndependent ==
    /\ (ag_pc \in {"counted", "filtered"}) => (ag_out.other = ag_out.counts)
    /\ (ex_pc = "regrouped") => (Statistics(ex_out.rows) = Statistics(ex_out.first_rows))

\* C15: with minimum-count threshold m every group of the output has count >= m
\* and every group with count < m is absent; a retained group keeps the count
\* it has without the filter; for m1 <= m2 the output at m2 is a subset of the
\* output at m1.
C15_MinCountFilter ==
    (ag_pc = "filtered") =>
        LET all == ag_out.counts
            o1 == ag_out.at_m1
            o2 == ag_out.at_m2
        IN /\ \A k \in DOMAIN o1 : o1[k] >= ag_out.m1
           /\ \A k \in DOMAIN o2 : o2[k] >= ag_out.m2
           /\ \A k \in DOMAIN all : (all[k] < ag_out.m1) => (k \notin DOMAIN o1)
           /\ \A k \in DOMAIN all : (all[k] < ag_out.m2) => (k \notin DOMAIN o2)
           /\ DOMAIN o1 \subseteq DOMAIN all
           /\ \A k \in DOMAIN o1 : o1[k] = all[k]
           /\ \A k \in DOMAIN o2 : o2[k] = all[k]
           /\ DOMAIN o2 \subseteq DOMAIN o1
           /\ \A k \in DOMAIN o2 : o2[k] = o1[k]

\* witness of C15: thresholds 2 and 3 on a group of two and a group of one: the
\* group of one is dropped at 2, the group of two at 3
C15_Witness ==
    /\ ag_pc = "filtered"
    /\ ag_out.m1 = 2
    /\ ag_out.m2 = 3
    /\ \E k \in DOMAIN ag_out.counts : ag_out.counts[k] = 1
    /\ \E k \in DOMAIN ag_out.at_m1 : ag_out.at_m1[k] = 2
    /\ ag_out.at_m2 = EmptyCounts

\* the field export_csv starts from, oriented as the exporter oriented it,
\* with its masked elements still marked
OrientedRaw ==
    IF ex_out.transposed THEN Transpose2D(Squeeze(ex_in.field)) ELSE Squeeze(ex_in.field)

\* the cell of the k-th point of the raveled mesh
CellOfPoint(k) ==
    _latlng_to_h3(LatGridRavel(ex_in.lats, ex_in.lons)[k],
                  LonGridRavel(ex_in.lats, ex_in.lons)[k], H3_RESOLUTION)

\* the points of a cell whose value is not missing
PresentIn(c) ==
    {k \in 1..Len(OrientedRaw.flat) :
        OrientedRaw.flat[k] \notin {NaN, Masked} /\ CellOfPoint(k) = c}

RECURSIVE InOrder(_)
\* the values of a set of points in the order of the raveled mesh
InOrder(S) ==
    IF S = {} THEN <<>>
    ELSE LET k == CHOOSE x \in S : \A y \in S : x <= y
         IN <<OrientedRaw.flat[k].v>> \o InOrder(S \ {k})

RECURSIVE SumOfValues(_, _)
\* the sum of a sequence of values as the mean kernel takes it, from acc on
SumOfValues(acc, q) ==
    IF q = <<>> THEN acc.sum ELSE SumOfValues(KahanAdd(acc, Head(q)), Tail(q))

\* the sum of the values of a set of points
SumOfPoints(S) == SumOfValues([sum |-> 0, comp |-> 0], InOrder(S))

\* C16: in export_csv the grid points whose value is missing (masked or NaN)
\* are dropped before the cell assignment: a cell has a row exactly when a
\* non-missing point maps to it, its n is the number of those points and its
\* mean, min and max are taken over those points only.
C16_MissingDroppedBeforeCells ==
    (ex_pc = "done" /\ ex_out.status = "ok") =>
        LET cells == {CellOfPoint(k) : k \in 1..Len(OrientedRaw.flat)}
        IN /\ DOMAIN ex_out.rows = {c \in cells : PresentIn(c) # {}}
           /\ \A p \in 1..Len(ex_out.points) : ex_out.points[p].val \notin {NaN, Masked}
           /\ \A c \in DOMAIN ex_out.rows :
                 /\ ex_out.rows[c].n = Cardinality(PresentIn(c))
                 /\ ex_out.rows[c].sum = SumOfPoints(PresentIn(c))
                 /\ ex_out.rows[c].mean =
                       Float32Div(SumOfPoints(PresentIn(c)), Cardinality(PresentIn(c)))
                 /\ \E k \in PresentIn(c) : ex_out.rows[c].min = OrientedRaw.flat[k]
                 /\ \E k \in PresentIn(c) : ex_out.rows[c].max = OrientedRaw.flat[k]
                 /\ \A k \in PresentIn(c) :
                       /\ ex_out.rows[c].min.v <= OrientedRaw.flat[k].v
                       /\ ex_out.rows[c].max.v >= OrientedRaw.flat[k].v

\* witness of C16: the 2 x 2 grid with values 1.0, 2.0, 3.0, NaN in one cell
\* gives the single row n = 3, mean = 6 / 3 = 2.0, min = 1.0, max = 3.0
C16_Witness ==
    /\ ex_pc = "done"
    /\ ex_out.status = "ok"
    /\ ex_in.lats = <<10, 12>>
    /\ ex_in.lons = <<20, 22>>
    /\ ex_in.field = Arr(<<2, 2>>, <<Num(1), Num(2), Num(3), NaN>>)
    /\ DOMAIN ex_out.rows = {_latlng_to_h3(10, 20, H3_RESOLUTION)}
    /\ \A c \in DOMAIN ex_out.rows :
          /\ ex_out.rows[c].n = 3
          /\ ex_out.rows[c].sum = 2 * 3
          /\ ex_out.rows[c].mean = Quot(2, 1)
          /\ ex_out.rows[c].min = Num(1)
          /\ ex_out.rows[c].max = Num(3)

\* C17: the field is transposed if and only if its shape differs from the mesh
\* shape and the shape of its transpose equals the mesh shape; a field whose
\* shape equals the mesh shape is used unchanged, also on a square grid; when
\* neither orientation matches the unit fails and no artifact is written.
C17_TransposedOnlyWhenNeeded ==
    (ex_pc = "done") =>
        LET bySst == ex_out.status \in {"ok_sst", "length_error"}
            f == IF bySst THEN SstCelsius(Filled(ex_in.field), ex_out.attrs)
                 ELSE Filled(Squeeze(ex_in.field))
            mesh == MeshShape(ex_in.lats, ex_in.lons)
            fits == f.shape = mesh
            fitsT == f.shape # mesh /\ ShapeT(f) = mesh
        IN /\ fits => (ex_out.written /\ ~ex_out.transposed /\ ex_out.used = f)
           /\ fitsT => (ex_out.written /\ ex_out.transposed /\ ex_out.used = Transpose2D(f))
           /\ (~fits /\ ~fitsT) => (~ex_out.written /\ ex_out.status # "ok" /\ ex_out.status # "ok_sst")

\* the fetch that just returned had a page that failed for good after at least
\* one page had been decoded
CutShort == FetchReturned /\ sh_stop = "failed" /\ Len(sh_pages) >= 2

\* the state the fetch returns in when it is cut short
CutShortReturnsEarlierPages ==
    CutShort =>
        /\ sh_ret = MinFilter(sh_counts)
        /\ RowsOf(SPECIES[sh_sp - 1], sh_ret) \subseteq sh_rows
        /\ RowsOf(SPECIES[sh_sp - 1], sh_ret) \subseteq sh_cut
        /\ sh_lastn >= 1

\* what main does with the rows of fetches that were cut short
PartialDataIsWritten ==
    /\ (sh_cut # {} /\ sh_pc \notin {"main", "aborted", "killed"}) => (sh_cut \subseteq sh_rows \/ sh_pc = "done")
    /\ (sh_cut # {} /\ sh_pc = "done") => (sh_report \in {"written", "skipped"})
    /\ (sh_cut # {} /\ sh_report = "written") =>
          /\ sh_file.state = "complete"
          /\ sh_cut \subseteq sh_file.rows
          /\ sh_file_cut = sh_cut

\* what a later pass does when the artifact is on disk
LaterPassSkips ==
    sh_existed => /\ sh_wrote = 0
                  /\ sh_report \in {"none", "skipped", "no_occurrences"}
                  /\ Exists(sh_file)

\* C29: when a page request fails for good (all retries exhausted) after
\* k >= 1 pages succeeded, the fetch stops and returns the counts accumulated
\* from the k earlier pages; the failure is not propagated, the driver writes
\* the artifact from the partial data and later passes skip the unit as
\* already complete.
C29_PartialFetchIsWrittenAsComplete ==
    /\ [](CutShortReturnsEarlierPages /\ PartialDataIsWritten /\ LaterPassSkips)
    /\ [][(sh_pc = "backoff" /\ sh_pc' # "req" /\ sh_pc' # "killed") =>
              /\ sh_pc' = "species"
              /\ sh_stop' = "failed"
              /\ sh_counts' = sh_counts
              /\ sh_ret' = MinFilter(sh_counts)
              /\ sh_rows' = sh_rows \cup RowsOf(SPECIES[sh_sp], MinFilter(sh_counts))]_vars
    /\ [][(sh_file.state = "complete") => (sh_file' = sh_file /\ sh_file_cut' = sh_file_cut)]_vars

\* witness of C29: a later pass has fetched every page of the listings the
\* server still holds, and has skipped the artifact that an earlier pass wrote
\* from the two pages it had when the third failed for good
C29_Witness ==
    /\ sh_existed
    /\ sh_report = "skipped"
    /\ sh_file.state = "complete"
    /\ sh_catalog = Catalog("three", "none", "none", "none", "none")
    /\ sh_cut = {}
    /\ sh_file_cut = sh_file.rows
    /\ \E row \in sh_file.rows : row.n_obs = 2

\* a record with latitude and longitude present and in range
HasCoords(rec) ==
    /\ rec.lat # <<>> /\ rec.lon # <<>>
    /\ -90 <= rec.lat[1] /\ rec.lat[1] <= 90
    /\ -180 <= rec.lon[1] /\ rec.lon[1] <= 180

RECURSIVE TotalOf(_)
\* the sum of the counts of all groups
TotalOf(counts) ==
    IF DOMAIN counts = {} THEN 0
    ELSE LET k == CHOOSE x \in DOMAIN counts : TRUE
         IN counts[k] + TotalOf([j \in DOMAIN counts \ {k} |-> counts[j]])

\* C25: before the minimum-count filter the sum of all group counts equals the
\* number of received records with latitude and longitude present and in
\* [-90, 90] and [-180, 180] (and, in the period fetch, a non-empty event
\* date); a record failing any of these is given no cell and is not counted.
C25_CountsAreTheUsableRecords ==
    (ag_pc = "counted") =>
        LET recs == ag_in.recs
            usable == {i \in 1..Len(recs) : HasCoords(recs[i])}
            dated == {i \in usable : recs[i].ev # <<>>}
        IN /\ TotalOf(ag_out.counts) = Cardinality(dated)
           /\ TotalOf(ag_out.day) = Cardinality(usable)
           /\ DOMAIN ag_out.counts =
                 {<<DateIso(recs[i].ev), _latlng_to_h3(recs[i].lat[1], recs[i].lon[1], H3_RESOLUTION)>>
                     : i \in dated}
           /\ DOMAIN ag_out.day =
                 {_latlng_to_h3(recs[i].lat[1], recs[i].lon[1], H3_RESOLUTION) : i \in usable}

\* witness of C25: a usable record, one out of range and one without a date:
\* the period fetch counts one, the one-day fetch two
C25_Witness ==
    /\ ag_pc = "counted"
    /\ ag_in.recs = <<Rec(<<90>>, <<-180>>, EvDay), Rec(<<95>>, <<20>>, EvDay), Rec(<<10>>, <<20>>, <<>>)>>
    /\ TotalOf(ag_out.counts) = 1
    /\ TotalOf(ag_out.day) = 2

\* the elements of the field that are missing in the input
MissingIn(a) == {k \in 1..Len(a.flat) : a.flat[k] \in {NaN, Masked}}

\* C24: a masked or NaN value of the primary variable becomes missing and its
\* record is dropped; it is never replaced by zero: there are no more rows than
\* values present in the input and none carries a 0 the input did not hold.
C24_MissingNeverBecomesZero ==
    (ex_pc = "done" /\ ex_out.written) =>
        /\ Len(ex_out.points) <= Len(ex_in.field.flat) - Cardinality(MissingIn(ex_in.field))
        /\ \A p \in 1..Len(ex_out.points) : ex_out.points[p].val \notin {NaN, Masked, Num(0)}

\* C26: in every aggregated output a cell with count 1 has standard deviation
\* 0, not NaN, and the centroid of a row is the centre of its cell as the
\* inverse cell mapping gives it, not the mean of the coordinates of its points.
C26_StdZeroAndCanonicalCentroid ==
    (ex_pc = "done" /\ ex_out.written) =>
        \A row \in ex_out.table :
            /\ (row.n = 1) => (row.std = Num(0))
            /\ row.centroid_lat.num = _h3_to_latlng(row.h3)[1] * row.centroid_lat.den
            /\ row.centroid_lon.num = _h3_to_latlng(row.h3)[2] * row.centroid_lon.den

\* the values of the field that are present in the input file
PresentValues(a) ==
    {a.flat[k].v : k \in {i \in 1..Len(a.flat) : a.flat[i] \notin {NaN, Masked}}}

\* C27: the minimum and maximum of the primary variable and the latitude and
\* longitude ranges are taken over the whole unit before anything is dropped or
\* aggregated, and every row written for the unit carries these same values.
C27_UnitWideRangesOnEveryRow ==
    (ex_pc = "done" /\ ex_out.status = "ok") =>
        /\ PresentValues(ex_in.field) # {} =>
              /\ ex_out.unit.min.v \in PresentValues(ex_in.field)
              /\ ex_out.unit.max.v \in PresentValues(ex_in.field)
              /\ \A x \in PresentValues(ex_in.field) :
                    ex_out.unit.min.v <= x /\ x <= ex_out.unit.max.v
        /\ ex_out.unit.lat_range = <<SeqMin(ex_in.lats), SeqMax(ex_in.lats)>>
        /\ ex_out.unit.lon_range = <<SeqMin(ex_in.lons), SeqMax(ex_in.lons)>>
        /\ \A row \in ex_out.table :
              /\ row.lat_range = ex_out.unit.lat_range
              /\ row.lon_range = ex_out.unit.lon_range
              /\ row.chlor_a_min = ex_out.unit.min
              /\ row.chlor_a_max = ex_out.unit.max

(***************************************************************************)
(* Claims about the date resolvers                                         *)
(***************************************************************************)
\* a string of the form YYYY-MM-DD that names a day of the calendar
IsIsoDay(q) ==
    /\ Like(q, <<"d", "d", "d", "d", "-", "d", "d", "-", "d", "d">>)
    /\ ValidYMD(ToInt(SubSeq(q, 1, 4)), ToInt(SubSeq(q, 6, 7)), ToInt(SubSeq(q, 9, 10)))

\* the day a range attribute or the creation timestamp gives when it is
\* present and parses, NoDate otherwise
AttrDay(attrs, a) ==
    IF a \in DOMAIN attrs /\ attrs[a] # <<>> THEN TryRangeAttr(attrs[a], dr_in.py311) ELSE NoDate

\* the day the year and day-of-year in the file name give, NoDate if none
FileNameDay(filepath) ==
    LET g == SearchDigits(Basename(filepath), "A", 7, <<>>)
    IN IF g = <<>> THEN NoDate ELSE FromYearDoy(ToInt(SubSeq(g, 1, 4)), ToInt(SubSeq(g, 5, 7)))

\* the strategies in their order of priority, each reduced to the day it gives
StrategyDays(attrs, filepath) ==
    << AttrDay(attrs, "time_coverage_start"), AttrDay(attrs, "start_time"),
       AttrDay(attrs, "time_coverage_end"), AttrDay(attrs, "end_time"),
       FileNameDay(filepath),
       AttrDay(attrs, "date_created") >>

\* the text of the first strategy that parses, the sentinel when none does
HighestPriorityText(attrs, filepath) ==
    LET days == StrategyDays(attrs, filepath)
        ok == {i \in 1..Len(days) : days[i] # NoDate}
    IN IF ok = {} THEN SENTINEL
       ELSE strftime_Ymd(days[CHOOSE i \in ok : \A j \in ok : i <= j])

\* C18: the resolver of the plankton scripts returns the result of the
\* highest-priority strategy that parses: a time-range-start attribute, then a
\* time-range-end attribute, then year and day-of-year in the file name, then
\* the creation timestamp; an attribute that is present but empty or
\* unparseable does not stop the chain.
C18_HighestPriorityStrategyWins ==
    (dr_pc = "done" /\ dr_out.by \in {"infer", "legacy"} /\ ~dr_out.raised) =>
        dr_out.text = HighestPriorityText(dr_in.attrs, dr_in.filepath)

\* C19: a date resolver never raises, and what it returns is a valid
\* YYYY-MM-DD day or its one "date not found" sentinel, never another string.
C19_ResolverIsTotal ==
    (dr_pc = "done") =>
        /\ ~dr_out.raised
        /\ \/ IsIsoDay(dr_out.text)
           \/ dr_out.text = (IF dr_out.by = "sst" THEN SENTINEL_SST ELSE SENTINEL)

(***************************************************************************)
(* Claims about the catalog drivers                                        *)
(***************************************************************************)
\* C21: when h3 cannot be imported the whole run aborts: no search or download
\* is made, no unit is processed and no per-unit warning is printed.
C21_MissingDependencyAborts ==
    (cd_pc # "idle" /\ ~cd_h3) =>
        /\ cd_calls = <<>>
        /\ cd_warned = 0
        /\ cd_total = [nc |-> 0, csv |-> 0]
        /\ cd_got = [nc |-> 0, csv |-> 0]

\* search_and_download_month has been called for a window and has returned or raised
CdWindowSearched == cd_pc = "files" \/ (cd_pc \in {"window", "done"} /\ cd_i > 1)

\* the window the calls in cd_calls were made for
CdLastWindow == IF cd_pc = "files" THEN cd_i ELSE cd_i - 1

\* how often a call occurs in a sequence of calls
CallCount(calls, c) == Cardinality({k \in 1..Len(calls) : calls[k] = c})

\* C23: for each window there is exactly one search call and at most one
\* download call, the search first; when the search returns nothing there is
\* no download call, no directory is created and the window adds nothing to
\* the counters.
C23_OneSearchThenAtMostOneDownload ==
    CdWindowSearched =>
        /\ CallCount(cd_calls, "search") = 1
        /\ CallCount(cd_calls, "download") <= 1
        /\ cd_calls[1] = "search"
        /\ (cd_results[CdLastWindow] = 0) =>
              /\ CallCount(cd_calls, "download") = 0
              /\ CallCount(cd_calls, "mkdir") = 0
              /\ ~cd_made
              /\ cd_got = [nc |-> 0, csv |-> 0]

(***************************************************************************)
(* Claims about the EarthAccessManager singleton                           *)
(***************************************************************************)
\* the call made no remote login
NoLogin(log) == \A i \in 1..Len(log) : log[i].ev # "login"

\* every remote search of the call was issued with _authenticated set
SearchesAuthenticated(log) == \A i \in 1..Len(log) : (log[i].ev = "search") => log[i].auth

\* C30: for any sequence of authenticate, search_data, search_recent_data and
\* reset_authentication calls on the singleton: the flags 'authenticated' and
\* 'auth failed' are never both true; after a successful authenticate no later
\* call invokes the remote login until reset_authentication; after a failed
\* authenticate every later authenticate returns False without invoking the
\* remote login until reset_authentication; and search_data never issues a
\* remote search while unauthenticated.
C30_AuthenticationStateMachine ==
    /\ [](~(ea_authenticated /\ ea_auth_failed))
    /\ [](SearchesAuthenticated(ea_log))
    /\ [][(ea_since = "ok" /\ ea_op' # "reset_authentication") => NoLogin(ea_log')]_vars
    /\ [][(ea_since = "failed" /\ ea_op' = "authenticate") =>
              (ea_ret' = Ret("False", 0) /\ NoLogin(ea_log'))]_vars
    /\ [][(ea_since = "failed" /\ ea_op' # "reset_authentication") =>
              (ea_since' = "failed" /\ NoLogin(ea_log'))]_vars

(***************************************************************************)
(* Claims about the names of the artifacts                                 *)
(***************************************************************************)
\* C20: the resolution is part of every artifact's name: a file whose rows
\* were computed at one resolution is never skipped as done nor overwritten
\* by a run at another resolution.
C20_ResolutionsNeverMixed ==
    (ar_last # <<>> /\ ar_last.op \in {"skipped", "overwritten"}) => ar_last.had = ar_last.res

(***************************************************************************)
(* Claims about the sharks driver and its sink                             *)
(***************************************************************************)
\* C2: for a unit whose artifact already exists the driver performs no network
\* I/O: the existence check precedes the first request and the unit is skipped.
C2_NoNetworkWhenArtifactExists ==
    sh_existed => ~sh_net

\* C4: whenever the run stops (also when interrupted in the middle of a write)
\* every artifact on disk is complete, so a later pass never skips a partially
\* written artifact as done.
C4_ArtifactsOnDiskAreComplete ==
    /\ (sh_pc \in ShTerminal) => (sh_file.state # "partial")
    /\ (sh_report = "skipped") => (sh_file.state = "complete")

\* C5: a failure raised while processing one unit never aborts the run; the
\* driver goes on and every unit is visited.
C5_UnitFailureNeverAborts ==
    /\ sh_pc # "aborted"
    /\ (sh_pc = "done") => (sh_visited = Len(SPECIES))

(***************************************************************************)
(* Claims about the SWOT driver and its sink                               *)
(***************************************************************************)
\* C1: once the artifact of a unit key has been written, no later pass with the
\* same key writes to it again: its content stays as it is.
C1_WrittenArtifactNeverRewritten ==
    [][\A d \in SwDays : (sw_disk[d].state = "complete") => (sw_disk'[d] = sw_disk[d])]_vars

\* C3: a second pass over the same range, the remote source returning the same
\* data, writes no artifact: its written counter is 0.
C3_SecondPassWritesNothing ==
    (sw_pc = "done" /\ sw_prev = "clean" /\ sw_clean) => (sw_report = 0)

\* C13: within one run the driver visits the windows in the descending order of
\* the partitioner, each exactly once and one after the other, and an artifact
\* written while processing one unit is never written again or modified while
\* processing a later unit of the same run (here: the first run, on an empty disk).
C13_InOrderAndNeverRevisited ==
    [][/\ \A i \in 1..(Len(SwWindows) - 1) :
              DateLT(SwWindows[i + 1][1], SwWindows[i][1])
       /\ (sw_pc \notin SwTerminal /\ sw_pc' \notin SwTerminal) =>
              (sw_i' = sw_i \/ sw_i' = sw_i + 1)
       /\ (sw_i' # sw_i /\ sw_pc' \notin SwTerminal) => (sw_pc' = "window")
       /\ \A d \in SwDays :
              (sw_prev = "none" /\ sw_disk[d].state = "complete") =>
                  (sw_disk'[d] = sw_disk[d])]_vars

(***************************************************************************)
(* Claims about month_windows                                              *)
(***************************************************************************)
WinStart(w) == w[1]
WinEnd(w) == w[2]

\* C9: for A <= B the first window starts exactly at A and the last window
\* ends exactly at B, so the windows cover exactly [A, B].
C9_FirstStartsAtA_LastEndsAtB ==
    (mw_pc = "done") =>
        /\ Len(mw_windows) >= 1
        /\ WinStart(mw_windows[1]) = mw_start
        /\ WinEnd(mw_windows[Len(mw_windows)]) = mw_end

\* C10: windows are ascending, each has start <= end, each window after the
\* first starts one day after the previous one ends, and every window other
\* than the first and the last spans exactly one calendar month.
C10_OrderedContiguousWholeMonths ==
    (mw_pc = "done") =>
        /\ \A i \in 1..Len(mw_windows) :
              DateLE(WinStart(mw_windows[i]), WinEnd(mw_windows[i]))
        /\ \A i \in 2..Len(mw_windows) :
              /\ DateLT(WinStart(mw_windows[i-1]), WinStart(mw_windows[i]))
              /\ ToOrdinal(WinStart(mw_windows[i])) =
                    ToOrdinal(WinEnd(mw_windows[i-1])) + 1
        /\ \A i \in 2..(Len(mw_windows) - 1) :
              LET w == mw_windows[i]
              IN /\ WinStart(w)[3] = 1
                 /\ WinEnd(w) = <<WinStart(w)[1], WinStart(w)[2],
                                  DaysInMonth(WinStart(w)[1], WinStart(w)[2])>>

\* C11: for a range with A = B = D, month_windows yields exactly one window and
\* that window is (D, D).
C11_SingleDayGivesThatDay ==
    (mw_pc = "done" /\ mw_start = mw_end) => (mw_windows = <<<<mw_start, mw_end>>>>)

\* C28: for every start <= end the month_windows of the plankton downloader
\* (loop bound: cur <= first day of end's month) and the one of the SWOT
\* downloader (loop bound: cur <= end) produce the identical window sequence.
C28_BothPartitionersAgree ==
    (mw_pc = "done") =>
        /\ month_windows(mw_start, mw_end) = month_windows_swot(mw_start, mw_end)
        /\ mw_windows = month_windows(mw_start, mw_end)
        /\ mw_windows = month_windows_swot(mw_start, mw_end)

\* witness of C28: the SWOT partitioner has run on a range of several months
\* that ends on the first day of a month, where the two loop bounds coincide
C28_Witness ==
    /\ mw_pc = "done"
    /\ mw_impl = "swot"
    /\ mw_end[3] = 1
    /\ mw_start[2] # mw_end[2]
    /\ Len(mw_windows) >= 2
    /\ WinStart(mw_windows[Len(mw_windows)]) = mw_end

\* C12: month_windows_desc(A, B) yields the windows of month_windows(A, B), as
\* many of them, in exactly reversed order; reversing it again gives the
\* ascending sequence.
C12_DescIsReversedAsc ==
    (mw_pc = "desc") =>
        /\ Len(mw_desc) = Len(mw_windows)
        /\ \A i \in 1..Len(mw_desc) : mw_desc[i] = mw_windows[Len(mw_windows) + 1 - i]
        /\ [i \in 1..Len(mw_desc) |-> mw_desc[Len(mw_desc) + 1 - i]] = mw_windows

\* witness of C12: a descending list of four windows whose first is the last
\* ascending one and differs from the first ascending one
C12_Witness ==
    /\ mw_pc = "desc"
    /\ mw_impl = "plancton"
    /\ Len(mw_desc) = 4
    /\ mw_desc[1] = mw_windows[4]
    /\ mw_desc[1] # mw_windows[1]

\* witness of C10: a call that produced a leap February as an interior window
C10_Witness ==
    /\ mw_pc = "done"
    /\ Len(mw_windows) >= 4
    /\ mw_start[3] # 1
    /\ \E i \in 2..(Len(mw_windows) - 1) : mw_windows[i] = <<<<2024, 2, 1>>, <<2024, 2, 29>>>>

====
